---- MODULE Spec2Model ----
(***************************************************************************)
(* The origin authorization gate of the wallet extension: the             *)
(* ProviderBridgeService (provider-bridge/index.ts), its permission store, *)
(* its pending-consent table and its open ports.                           *)
(*                                                                         *)
(* Every async method is cut at its awaits.  An action is the code between *)
(* two awaits, run when the awaited operation completes; the read or write *)
(* of the awaited operation happens in that same step.  A first segment    *)
(* that touches no shared state is merged into the step that follows it.   *)
(*                                                                         *)
(* posted, emitted, invoked and windows hold what the LAST step sent to    *)
(* the outside (port messages, emitter events, calls of the internal       *)
(* provider, popup operations): every output the service ever produces is  *)
(* visible in the state that follows the step producing it.                *)
(***************************************************************************)
EXTENDS Integers, Sequences, FiniteSets, TLC

\* ------------------------------------------------------------------ bounds
MaxPorts == 2
MaxGatePorts == 1
MaxReq == 2
MaxRunning == 1
MaxInFlight == 2

\* ------------------------------------------------------------ value space
\* A JavaScript undefined where an address is expected, and the empty string.
\* Both are sequences too, so that every address-valued field has one type.
Undefined == <<"undefined">>
Empty == <<>>

\* An address is the sequence of its hex digits (after the 0x prefix).
ADDR_A == <<"a", "b">>
ADDR_A_UPPER == <<"A", "B">>
ADDR_A_MIXED == <<"a", "B">>
ADDR_B == <<"b", "c">>

\* The accounts of the wallet, one of which is selected.
Accounts == {ADDR_A, ADDR_B}

\* Addresses a page can put into the parameters of a call.
SignerParams == {ADDR_A, ADDR_A_UPPER, ADDR_A_MIXED, ADDR_B, Undefined}

ORIGIN_1 == "https://dapp.example"
\* constants/website WEBSITE_ORIGIN: the only origin that may set the claim referrer.
WEBSITE_ORIGIN == "https://tally.cash"
ORIGIN_2 == WEBSITE_ORIGIN
Origins == {ORIGIN_1, ORIGIN_2}

\* The id of wallet-originated messages, and the ids pages give their requests.
TALLY_ID == "tallyHo"
EventIds == {"1"}

\* port.sender.url of a port whose sender has none.
NO_URL == "undefined"

\* params[0] of tally_setClaimReferrer: a string, or something else.
REFERRER == <<"r", "e", "f">>
ReferrerParams == {REFERRER, Undefined}

Ports == 1..MaxPorts
\* The name the content script connects with, and the ports the browser can
\* hand to the onConnect listener: those of Ports, one that connects with
\* another name and one whose sender has no url.
EXTERNAL_PORT_NAME == "tally-external"
OTHER_NAME_PORT == MaxPorts + 1
NO_URL_PORT == MaxPorts + 2
AnyPorts == Ports \cup {OTHER_NAME_PORT, NO_URL_PORT}
PortName(p) == IF p = OTHER_NAME_PORT THEN "tally-internal" ELSE EXTERNAL_PORT_NAME
HasSenderUrl(p) == p # NO_URL_PORT
\* The ports that connect in the specification of the consent flow.
GatePorts == 1..MaxGatePorts
ReqIds == 1..MaxReq

\* port.sender.url of each port: immutable for the life of the port.
PortOrigin(p) == IF p % 2 = 1 THEN ORIGIN_1 ELSE ORIGIN_2

AccountMethods == {"eth_requestAccounts", "eth_accounts"}
TypedDataMethods ==
  {"eth_signTypedData", "eth_signTypedData_v1", "eth_signTypedData_v3", "eth_signTypedData_v4"}
SignMethods == {"eth_sign", "personal_sign"}
TransactionMethods == {"eth_signTransaction", "eth_sendTransaction"}
SigningFamily == TypedDataMethods \cup SignMethods \cup TransactionMethods
OtherMethods == {"eth_chainId"}
ConfigMethods == {"tally_getConfig"}
ClaimMethods == {"tally_setClaimReferrer"}
AllMethods ==
  AccountMethods \cup SigningFamily \cup OtherMethods \cup ConfigMethods \cup ClaimMethods


PermissionStates == {"request", "allow", "deny"}

\* The arguments the UI can pass to grantPermission / denyOrRevokePermission.
PermissionArgs ==
  [origin : Origins, accountAddress : Accounts \cup {Empty}, state : PermissionStates]

\* --------------------------------------------------------------- results
UNAUTHORIZED == "unauthorized"
USER_REJECTED == "userRejectedRequest"

ErrorResult(code) == [tag |-> "error", value |-> code]
AccountsResult(list) == [tag |-> "accounts", value |-> list]
\* ConfigResultInitial reports the setting the wallet started with.
ConfigResultInitial(m, w) == [tag |-> "config", value |-> <<m, FALSE>>]
ConfigResult(m, w) == [tag |-> "config", value |-> <<m, w>>]
NullResult == [tag |-> "null", value |-> "null"]
ServiceResult(m) == [tag |-> "service", value |-> m]

\* ------------------------------------------------------ address comparison
LowerHex(c) ==
  CASE c = "A" -> "a"
    [] c = "B" -> "b"
    [] c = "C" -> "c"
    [] c = "D" -> "d"
    [] c = "E" -> "e"
    [] c = "F" -> "f"
    [] OTHER -> c

\* @tallyho/hd-keyring normalizeHexAddress: the lower-case hex form.
normalizeHexAddress(address) == [i \in DOMAIN address |-> LowerHex(address[i])]

\* lib/utils sameEVMAddress comparing the raw strings.
sameEVMAddressRaw(address1, address2) ==
  IF address1 = Undefined \/ address2 = Undefined
  THEN FALSE
  ELSE address1 = address2

sameEVMAddress(address1, address2) ==
  IF address1 = Undefined \/ address2 = Undefined
  THEN FALSE
  ELSE normalizeHexAddress(address1) = normalizeHexAddress(address2)

\* ---------------------------------------------------- authorization policy
\* provider-bridge/authorization: each check throws unless the address of the
\* call is the account of the enabling permission.
checkPermissionSignTypedData(walletAddress, enablingPermission) ==
  sameEVMAddress(walletAddress, enablingPermission.accountAddress)

checkPermissionSign(walletAddress, enablingPermission) ==
  sameEVMAddress(walletAddress, enablingPermission.accountAddress)

\* transactionRequest is represented by its from field (Undefined when absent).
checkPermissionSignTransaction(transactionFrom, enablingPermission) ==
  sameEVMAddress(transactionFrom, enablingPermission.accountAddress)

\* --------------------------------------------------------------- the store
\* provider-bridge/db: a map keyed by (origin, accountAddress).
Permission(o, a, st) == [origin |-> o, accountAddress |-> a, state |-> st]

SameKey(g, h) == g.origin = h.origin /\ g.accountAddress = h.accountAddress

dbSetPermission(db, permission) ==
  {g \in db : ~SameKey(g, permission)} \cup {permission}

\* dbDeleteOrigin deletes by origin alone.
dbDeleteOrigin(db, o, a) == {g \in db : g.origin # o}

dbDeletePermission(db, o, a) ==
  {g \in db : ~(g.origin = o /\ g.accountAddress = a)}

HasPermission(db, o, a) == \E g \in db : g.origin = o /\ g.accountAddress = a

\* The stored permission of (o, a); only used where HasPermission holds.
dbCheckPermission(db, o, a) ==
  CHOOSE g \in db : g.origin = o /\ g.accountAddress = a

\* ---------------------------------------------------------------- router
\* The popup page routeContentScriptRPCRequest opens for `method`.
\* PopupAlwaysSignData opens the typed-data page for every signing call.
PopupAlwaysSignData(method) ==
  IF method \in SigningFamily THEN "signData" ELSE "none"

PopupFor(method) ==
  CASE method \in TypedDataMethods -> "signData"
    [] method \in SignMethods -> "personalSignData"
    [] method \in TransactionMethods -> "signTransaction"
    [] OTHER -> "none"

\* The policy check routeContentScriptRPCRequest runs for `method`; signer is
\* the parameter the router hands to the check: params[0] for typed data,
\* params[1] for eth_sign and personal_sign, params[0].from for transactions.
\* PolicySkipped is the router without its checks; PolicyEveryMethod checks
\* the address of every call, also of one outside the signing families.
PolicySkipped(enablingPermission, method, signer) == TRUE

PolicyEveryMethod(enablingPermission, method, signer) ==
  sameEVMAddress(signer, enablingPermission.accountAddress)

PolicyPasses(enablingPermission, method, signer) ==
  CASE method \in TypedDataMethods -> checkPermissionSignTypedData(signer, enablingPermission)
    [] method \in SignMethods -> checkPermissionSign(signer, enablingPermission)
    [] method \in TransactionMethods -> checkPermissionSignTransaction(signer, enablingPermission)
    [] OTHER -> TRUE

\* The synchronous part of routeContentScriptRPCRequest: a result returned at
\* once, or a call of the internal provider (kind "dispatch") with the popup
\* it opened first.  RouteViaProvider hands the account methods to the
\* internal provider like any other call.
RouteViaProvider(enablingPermission, method, signer) ==
  IF ~PolicyPasses(enablingPermission, method, signer)
  THEN [kind |-> "reply", result |-> ErrorResult(USER_REJECTED), popup |-> "none"]
  ELSE [kind |-> "dispatch", result |-> ServiceResult(method), popup |-> PopupFor(method)]

RouteDecision(enablingPermission, method, signer) ==
  IF method \in AccountMethods
  THEN [kind |-> "reply", result |-> AccountsResult(<<enablingPermission.accountAddress>>),
        popup |-> "none"]
  ELSE IF ~PolicyPasses(enablingPermission, method, signer)
  THEN [kind |-> "reply", result |-> ErrorResult(USER_REJECTED), popup |-> "none"]
  ELSE [kind |-> "dispatch", result |-> ServiceResult(method), popup |-> PopupFor(method)]

\* ====================================================== the redux slices
\* An optional field is the set of its values: {} when the field is absent
\* or undefined, {v} when it holds v.

\* ------------------------------------- transaction-construction: values
MaxTime == 1
\* Date.now() at the moments the slice reads the clock.
Times == 0..MaxTime

Idle == "idle"
Pending == "pending"
Loaded == "loaded"
Signed == "signed"
TransactionConstructionStatus == {Idle, Pending, Loaded, Signed}

\* constants/network-fees: the confidence levels of the block estimates.
INSTANT == "INSTANT"
EXPRESS == "EXPRESS"
REGULAR == "REGULAR"
CUSTOM == "CUSTOM"

Regular == "regular"
Express == "express"
Instant == "instant"
Custom == "custom"
\* The fee types the user chooses between in the model.
NetworkFeeTypeChosen == {Regular, Custom}

\* An amount of wei: `base` as it is, or (base * MAX_FEE_MULTIPLIER[by]) / 10n
\* for the confidence `by`.
Wei(n) == [base |-> n, by |-> "none"]
Scaled(n, type) == [base |-> n, by |-> type]

\* The block prices the chain service reports: a base fee, and estimated
\* prices for the regular confidence only.
BlockPricesPayloads ==
  {[baseFeePerGas |-> Wei(2),
    estimatedPrices |-> {[confidence |-> REGULAR, maxPriorityFeePerGas |-> Wei(1),
                          price |-> Wei(3)]}]}

\* The custom fees the user can set.
CustomGasPayloads == {[maxPriorityFeePerGas |-> Wei(3), maxFeePerGas |-> Wei(3)]}

\* The transaction requests the enrichment service hands to the slice.
TransactionRequestPayloads ==
  {[transactionRequest |-> [nonce |-> "n1", maxFeePerGas |-> Wei(4),
                            maxPriorityFeePerGas |-> Wei(4)],
    transactionLikelyFails |-> f] : f \in BOOLEAN}

\* The signed transactions the signing services return.
SignedTransactions == {"signed1", "signed2"}

initialState ==
  [status |-> Idle,
   transactionRequest |-> {},
   signedTransaction |-> {},
   broadcastOnSign |-> {},
   transactionLikelyFails |-> {},
   estimatedFeesPerGas |->
     [baseFeePerGas |-> {}, instant |-> {}, express |-> {}, regular |-> {},
      custom |-> {[maxFeePerGas |-> Wei(1), confidence |-> CUSTOM,
                   maxPriorityFeePerGas |-> Wei(1), price |-> {}]}],
   lastGasEstimatesRefreshed |-> 0,
   feeTypeSelected |-> {Regular}]

\* ----------------------------------- transaction-construction: reducers
\* a ?? b on optional values.
OrElse(a, b) == IF a = {} THEN b ELSE a

makeBlockEstimate(type, estimatedFeesPerGas) ==
  LET found == {el \in estimatedFeesPerGas.estimatedPrices : el.confidence = type} IN
    [maxFeePerGas |-> Scaled(estimatedFeesPerGas.baseFeePerGas.base, type),
     confidence |-> type,
     maxPriorityFeePerGas |->
       IF found = {} THEN Wei(0) ELSE (CHOOSE el \in found : TRUE).maxPriorityFeePerGas,
     price |-> IF found = {} THEN {Wei(0)} ELSE {(CHOOSE el \in found : TRUE).price}]

\* state.estimatedFeesPerGas?.[state.feeTypeSelected]
SelectedEstimate(state) ==
  IF state.feeTypeSelected = {} THEN {}
  ELSE state.estimatedFeesPerGas[CHOOSE t \in state.feeTypeSelected : TRUE]

transactionRequest(state, payload) ==
  [state EXCEPT
     !.status = Loaded,
     !.signedTransaction = {},
     !.transactionRequest =
        {[payload.transactionRequest EXCEPT
            !.maxFeePerGas =
               IF SelectedEstimate(state) = {} THEN @
               ELSE (CHOOSE e \in SelectedEstimate(state) : TRUE).maxFeePerGas,
            !.maxPriorityFeePerGas =
               IF SelectedEstimate(state) = {} THEN @
               ELSE (CHOOSE e \in SelectedEstimate(state) : TRUE).maxPriorityFeePerGas]},
     !.transactionLikelyFails = {payload.transactionLikelyFails}]

\* clearTransactionStateKeepRequest spreads the old state under the new fields.
clearTransactionStateKeepRequest(state, payload) ==
  [state EXCEPT
     !.status = payload,
     !.feeTypeSelected = OrElse(state.feeTypeSelected, {Regular}),
     !.broadcastOnSign = {FALSE},
     !.signedTransaction = {}]

clearTransactionState(state, payload) ==
  [estimatedFeesPerGas |-> state.estimatedFeesPerGas,
   lastGasEstimatesRefreshed |-> state.lastGasEstimatesRefreshed,
   status |-> payload,
   feeTypeSelected |-> OrElse(state.feeTypeSelected, {Regular}),
   broadcastOnSign |-> {FALSE},
   signedTransaction |-> {},
   transactionRequest |-> {},
   transactionLikelyFails |-> {}]

setFeeType(state, payload) == [state EXCEPT !.feeTypeSelected = {payload}]

signed(state, payload) ==
  [state EXCEPT !.status = Signed, !.signedTransaction = {payload}]

broadcastOnSign(state, payload) == [state EXCEPT !.broadcastOnSign = {payload}]

transactionLikelyFails(state) == [state EXCEPT !.transactionLikelyFails = {TRUE}]

\* now is the value Date.now() returns.
estimatedFeesPerGas(state, payload, now) ==
  [state EXCEPT
     !.estimatedFeesPerGas =
        [@ EXCEPT !.baseFeePerGas = {payload.baseFeePerGas},
                  !.instant = {makeBlockEstimate(INSTANT, payload)},
                  !.express = {makeBlockEstimate(EXPRESS, payload)},
                  !.regular = {makeBlockEstimate(REGULAR, payload)}],
     !.lastGasEstimatesRefreshed = now]

setCustomGas(state, payload) ==
  [state EXCEPT
     !.estimatedFeesPerGas.custom =
        {[maxFeePerGas |-> payload.maxFeePerGas, confidence |-> CUSTOM,
          maxPriorityFeePerGas |-> payload.maxPriorityFeePerGas, price |-> {}]}]

\* extraReducers: updateTransactionOptions.pending.
\* updateTransactionOptionsPendingKeepSigned sets the status alone.
updateTransactionOptionsPendingKeepSigned(state) == [state EXCEPT !.status = Pending]

updateTransactionOptionsPending(state) ==
  [state EXCEPT !.status = Pending, !.signedTransaction = {}]

\* ------------------------------------------------------- accounts: values
\* The chains and the asset symbols of the model.
ETHEREUM == "1"
POLYGON == "137"
ChainIDs == {ETHEREUM, POLYGON}
Symbols == {"ETH", "DAI"}

\* lib/utils normalizeEVMAddress.
normalizeEVMAddress(address) == normalizeHexAddress(address)

\* The entry of an account that was loaded and has no data yet.
LOADING == [tag |-> "loading"]

\* The accounts the wallet adds and removes: one written in upper case.
AccountInputs == {[address |-> a, network |-> c] : a \in {ADDR_A_UPPER, ADDR_B}, c \in ChainIDs}

AccountBalance(a, c, s, n) ==
  [address |-> a, network |-> c, assetAmount |-> [asset |-> [symbol |-> s], amount |-> n]]

\* The balances the chain service reports, and the lists it reports them in.
MaxBalances == 2
BalanceInputs ==
  {AccountBalance(ADDR_A, ETHEREUM, "ETH", 1), AccountBalance(ADDR_A_UPPER, ETHEREUM, "ETH", 2),
   AccountBalance(ADDR_B, ETHEREUM, "ETH", 1), AccountBalance(ADDR_B, POLYGON, "DAI", 1)}
BalancePayloads == UNION {[1..n -> BalanceInputs] : n \in 1..MaxBalances}

\* The names and avatars the name service resolves.
NameInputs ==
  {[address |-> ADDR_A, network |-> c, name |-> "name.eth"] : c \in ChainIDs}
AvatarInputs ==
  {[address |-> ADDR_B, network |-> ETHEREUM, avatar |-> "avatar.png"],
   [address |-> ADDR_A_UPPER, network |-> POLYGON, avatar |-> "avatar.png"]}

accountInitialState ==
  [accountsData |-> [evm |-> <<>>],
   combinedData |-> [totalMainCurrencyValue |-> "", assets |-> {}]]

\* ------------------------------------------------------- networks: values
MaxHeight == 2
\* The blocks the chain service reports: of either chain, of every height
\* from the genesis block on, two of each height.
BlockInputs ==
  {[network |-> [chainID |-> c], blockHeight |-> h, hash |-> x] :
   c \in ChainIDs, h \in 0..MaxHeight, x \in {"x", "y"}}

networksInitialState ==
  [networkData |-> (ETHEREUM :> [blockHeight |-> {}, blocks |-> <<>>])]

\* ----------------------------------------------------------------- state
VARIABLES
  selected,     \* preferenceService: the address of the selected account
  store,        \* db: the persisted permissions
  openPorts,    \* this.openPorts
  connected,    \* the ports the browser has connected and not yet disconnected
  defaultWallet, \* preferenceService: the default-wallet setting
  req,          \* the running onMessageListener calls, by request id
  pending,      \* #pendingPermissionsRequests: origin -> the request its resolver resumes
  blockedOrder, \* per origin, the blocked requests in the order they registered
  denyTask,     \* the running denyOrRevokePermission calls
  pushes,       \* the running callbacks of notifyContentScriptsAboutAddressChange, by port
  notifyDue,    \* account switches written to the preferences, not yet broadcast
  posted,       \* responses the last step posted (port.postMessage in onMessageListener)
  pushed,       \* tally_accountChanged pushes the last step posted
  emitted,      \* emitter events of the last step
  invoked,      \* internal provider calls of the last step
  windows,      \* popup operations of the last step
  transactionConstruction, \* redux: the state of the transaction-construction slice
  thunks,       \* the thunks of that slice that wait at their await
  accountsState, \* redux: the state of the accounts slice
  networkData,  \* redux: networkData of the networks slice
  received,     \* what the last step's handler was called or resumed with: the
                \* sender url of a message, the outcomes of the service and the popup,
                \* a grant or deny call that returned at its argument check
  issued        \* the calls of the last step, in the order they were made

vars ==
  <<selected, store, openPorts, connected, defaultWallet, req, pending, blockedOrder, denyTask,
    pushes, notifyDue, posted, pushed, emitted, invoked, windows,
    transactionConstruction, thunks, accountsState, networkData, received,
    issued>>

\* The state of the redux slices, and the state of the provider bridge.
slices == <<transactionConstruction, thunks, accountsState, networkData>>

bridge ==
  <<selected, store, openPorts, connected, defaultWallet, req, pending, blockedOrder,
    denyTask, pushes, notifyDue>>

\* ---------------------------------------------------------------- helpers
Remove(f, x) == [y \in DOMAIN f \ {x} |-> f[y]]

Put(f, x, v) == [y \in DOMAIN f \cup {x} |-> IF y = x THEN v ELSE f[y]]

SeqWithout(s, x) == SelectSeq(s, LAMBDA y : y # x)

\* A request is running unless it is blocked on the user's decision.
\* RunningOrSuspended counts the blocked ones: a suspended handler holds the gate.
RunningOrSuspended == DOMAIN req

Running == {r \in DOMAIN req : req[r].pc # "blocked"}

\* The operations under way: running handlers, deny calls, a broadcast.
InFlight ==
  Cardinality(Running) + Cardinality(denyTask) + (IF DOMAIN pushes = {} THEN 0 ELSE 1)

FreeId == CHOOSE r \in ReqIds : r \notin DOMAIN req /\ \A q \in ReqIds : q < r => q \in DOMAIN req

\* What the last step sent out.
Out(p, e, i, w) ==
  posted' = p /\ pushed' = {} /\ emitted' = e /\ invoked' = i /\ windows' = w

Silent == Out({}, {}, {}, {}) /\ received' = {} /\ issued' = <<>>

\* The response posted on the port of request r, with the request it answers.
\* ReplyOnSomePort posts it on a port picked from the open ports,
\* ReplyAsPush under the id of the wallet's own messages.
ReplyAsPush(r, id, result) ==
  [port |-> req[r].port, id |-> TALLY_ID, method |-> req[r].method, param |-> req[r].param,
   resolved |-> req[r].resolved, result |-> result]

ReplyOnSomePort(r, id, result) ==
  [port |-> CHOOSE p \in openPorts : TRUE, id |-> id, method |-> req[r].method,
   param |-> req[r].param, resolved |-> req[r].resolved, result |-> result]

Reply(r, id, result) ==
  [port |-> req[r].port, id |-> id, method |-> req[r].method, param |-> req[r].param,
   resolved |-> req[r].resolved, result |-> result]

\* What the promise a handler blocks on resolved with: nothing yet, the
\* permission of a grant, or the string of a denial.
NotResolved == [by |-> "none", accountAddress |-> Undefined]

Init ==
  /\ selected \in Accounts
  /\ store = {}
  /\ openPorts = {}
  /\ connected = {}
  /\ defaultWallet = FALSE
  /\ req = <<>>
  /\ pending = <<>>
  /\ blockedOrder = [o \in Origins |-> <<>>]
  /\ denyTask = {}
  /\ pushes = <<>>
  /\ notifyDue = {}
  /\ transactionConstruction = initialState
  /\ thunks = {}
  /\ accountsState = accountInitialState
  /\ networkData = networksInitialState.networkData
  /\ posted = {}
  /\ pushed = {}
  /\ emitted = {}
  /\ invoked = {}
  /\ windows = {}
  /\ received = {}
  /\ issued = <<>>

\* ------------------------------------------------------------------ ports
\* The test of the onConnect listener.  AcceptsAnyName leaves the name out.
AcceptsAnyName(p) == HasSenderUrl(p)

AcceptsConnection(p) == PortName(p) = EXTERNAL_PORT_NAME /\ HasSenderUrl(p)

\* browser.runtime.onConnect listener: a port that connects with the name of
\* the content script and has a sender url gets its listeners and is stored;
\* any other port is left alone.
\* A port id names a new port once nothing refers to the port that had it.
Connect(p) ==
  /\ p \notin connected
  /\ p \notin openPorts
  /\ p \notin DOMAIN pushes
  /\ \A r \in DOMAIN req : req[r].port # p
  /\ connected' = connected \cup {p}
  /\ openPorts' = IF AcceptsConnection(p) THEN openPorts \cup {p} ELSE openPorts
  /\ Silent
  /\ UNCHANGED <<selected, store, defaultWallet, slices, req, pending, blockedOrder, denyTask,
                 pushes, notifyDue>>

\* port.onDisconnect listener: the port is filtered out of openPorts.
Disconnect(p) ==
  /\ p \in connected
  /\ connected' = connected \ {p}
  /\ openPorts' = openPorts \ {p}
  /\ Silent
  /\ UNCHANGED <<selected, store, defaultWallet, slices, req, pending, blockedOrder, denyTask,
                 pushes, notifyDue>>

\* A message on a port that has no onMessage listener: no code runs.
OnMessageUnregistered(p) ==
  /\ p \in connected \ openPorts
  /\ Silent
  /\ UNCHANGED <<selected, store, openPorts, connected, defaultWallet, slices, req, pending,
                 blockedOrder, denyTask, pushes, notifyDue>>

\* -------------------------------------------------------- onMessageListener
\* The parameters a page can send with `method`, under the inputs S of a
\* specification: the address the router checks for a signing call, params[0]
\* for tally_setClaimReferrer.
ParamsOf(method, S) ==
  IF method \in SigningFamily THEN S
  ELSE IF method \in ClaimMethods THEN ReferrerParams
  ELSE {Undefined}

\* A message arrives on an open port; the handler runs up to the first read of
\* checkPermission (getSelectedAccount) and waits for db.checkPermission.
OnMessage(cap, M, S) ==
  \E p \in openPorts, m \in M, id \in EventIds :
    \E a \in ParamsOf(m, S) :
      /\ DOMAIN req # ReqIds
      /\ Cardinality(Running) < MaxRunning
      /\ InFlight < cap
      /\ req' = Put(req, FreeId,
                    [pc |-> "checkPermission", port |-> p, eventId |-> id, method |-> m,
                     param |-> a, sel |-> selected, popup |-> "none",
                     resolved |-> NotResolved])
      /\ Out({}, {}, {}, {})
      /\ received' = {[url |-> PortOrigin(p)]}
      /\ issued' = <<>>
      /\ UNCHANGED <<selected, store, openPorts, connected, defaultWallet, slices, pending, blockedOrder, denyTask,
                     pushes, notifyDue>>

\* A message arrives on a port whose sender has no url: the handler returns
\* at once.  OnMessageNoUrlAnswered is the handler without that return, which
\* answers the message as one of an origin that has no permission.
OnMessageNoUrlAnswered ==
  /\ Out({[port |-> CHOOSE p \in Ports : TRUE, id |-> CHOOSE id \in EventIds : TRUE, method |-> "eth_accounts",
           param |-> Undefined, resolved |-> NotResolved,
           result |-> ErrorResult(UNAUTHORIZED)]}, {}, {}, {})
  /\ received' = {[url |-> NO_URL]}
  /\ issued' = <<"postMessage">>
  /\ UNCHANGED <<selected, store, openPorts, connected, defaultWallet, slices, req, pending, blockedOrder, denyTask,
                 pushes, notifyDue>>

OnMessageNoUrl ==
  /\ Out({}, {}, {}, {})
  /\ received' = {[url |-> NO_URL]}
  /\ issued' = <<>>
  /\ UNCHANGED <<selected, store, openPorts, connected, defaultWallet, slices, req, pending, blockedOrder, denyTask,
                 pushes, notifyDue>>

\* checkPermission(origin) for the handler of request r: the stored permission
\* of (origin, the selected address the handler read), as the set {} or {it}.
\* checkPermissionByOrigin is the lookup by origin alone.
checkPermissionByOrigin(r) ==
  {g \in store : g.origin = PortOrigin(req[r].port)}

checkPermission(r) ==
  IF HasPermission(store, PortOrigin(req[r].port), req[r].sel)
  THEN {dbCheckPermission(store, PortOrigin(req[r].port), req[r].sel)}
  ELSE {}

\* The handler posts its response and ends.
Respond(r, id, result) ==
  /\ req' = Remove(req, r)
  /\ posted' = {Reply(r, id, result)}

\* The test a tally_setClaimReferrer message must pass: it comes from the
\* website of the wallet and its first parameter is a string.
\* ClaimReferrerAnyOrigin accepts a string from any origin.
ClaimReferrerAnyOrigin(origin, referrer) == referrer # Undefined

ValidClaimReferrer(origin, referrer) ==
  ~(origin # WEBSITE_ORIGIN \/ referrer = Undefined)

\* db.checkPermission resolves: the handler classifies the message and
\* runs to its next await, or to port.postMessage.
CheckedPermission(r) ==
  /\ r \in DOMAIN req
  /\ req[r].pc = "checkPermission"
  /\ LET found == checkPermission(r)
         method == req[r].method
         origin == PortOrigin(req[r].port)
     IN
       \/ /\ method \in ConfigMethods
          /\ Respond(r, TALLY_ID, ConfigResult(method, defaultWallet))
          /\ pushed' = {} /\ emitted' = {} /\ invoked' = {} /\ windows' = {}
          /\ received' = {} /\ issued' = <<"postMessage">>
       \/ /\ method \in ClaimMethods
          /\ ~ValidClaimReferrer(origin, req[r].param)
          /\ req' = Remove(req, r)
          /\ Silent
       \/ /\ method \in ClaimMethods
          /\ ValidClaimReferrer(origin, req[r].param)
          /\ Respond(r, req[r].eventId, NullResult)
          /\ emitted' = {[event |-> "setClaimReferrer", origin |-> origin, value |-> req[r].param]}
          /\ pushed' = {} /\ invoked' = {} /\ windows' = {}
          /\ received' = {} /\ issued' = <<"emit", "postMessage">>
       \/ /\ method \notin ConfigMethods \cup ClaimMethods
          /\ found # {}
          /\ LET d == RouteDecision(CHOOSE g \in found : TRUE, method, req[r].param) IN
               \/ /\ d.kind = "reply"
                  /\ Respond(r, req[r].eventId, d.result)
                  /\ pushed' = {} /\ emitted' = {} /\ invoked' = {} /\ windows' = {}
                  /\ received' = {} /\ issued' = <<"postMessage">>
               \/ /\ d.kind = "dispatch"
                  /\ req' = [req EXCEPT ![r].pc = "service", ![r].popup = d.popup]
                  /\ Out({}, {},
                         {[method |-> method, param |-> req[r].param]},
                         IF d.popup = "none" THEN {} ELSE {[op |-> "create", page |-> d.popup]})
                  /\ received' = {}
                  /\ issued' = IF d.popup = "none" THEN <<"routeSafeRPCRequest">>
                               ELSE <<"windows.create", "routeSafeRPCRequest">>
       \/ /\ method \notin ConfigMethods \cup ClaimMethods
          /\ found = {}
          /\ method = "eth_requestAccounts"
          /\ req' = [req EXCEPT ![r].pc = "getAccount", ![r].sel = Undefined]
          /\ Silent
       \/ /\ method \notin ConfigMethods \cup ClaimMethods
          /\ found = {}
          /\ method # "eth_requestAccounts"
          /\ Respond(r, req[r].eventId, ErrorResult(UNAUTHORIZED))
          /\ pushed' = {} /\ emitted' = {} /\ invoked' = {} /\ windows' = {}
          /\ received' = {} /\ issued' = <<"postMessage">>
  /\ UNCHANGED <<selected, store, openPorts, connected, defaultWallet, slices, pending, blockedOrder, denyTask,
                 pushes, notifyDue>>

\* getSelectedAccount resolves in the eth_requestAccounts branch: the handler
\* builds the permission request; requestPermission emits it and asks for the popup.
RequestPermission(r) ==
  /\ r \in DOMAIN req
  /\ req[r].pc = "getAccount"
  /\ req' = [req EXCEPT ![r].pc = "showPopup"]
  /\ Out({},
         {[event |-> "requestPermission", origin |-> PortOrigin(req[r].port), value |-> selected]},
         {}, {[op |-> "create", page |-> "dappPermission"]})
  /\ received' = {}
  /\ issued' = <<"emit", "windows.create">>
  /\ UNCHANGED <<selected, store, openPorts, connected, defaultWallet, slices, pending, blockedOrder, denyTask,
                 pushes, notifyDue>>

\* The resolver requestPermission stores for `origin`, given that request r
\* asks: the table entry is overwritten.  RegisterKeepFirst keeps an entry
\* that is there.
RegisterKeepFirst(table, origin, r) ==
  IF origin \in DOMAIN table THEN table ELSE Put(table, origin, r)

Register(table, origin, r) == Put(table, origin, r)

\* showExtensionPopup resolves: requestPermission stores the resolver of the
\* promise the handler then blocks on.
PopupShown(r) ==
  /\ r \in DOMAIN req
  /\ req[r].pc = "showPopup"
  /\ LET origin == PortOrigin(req[r].port) IN
       /\ pending' = Register(pending, origin, r)
       /\ blockedOrder' = [blockedOrder EXCEPT ![origin] = Append(@, r)]
  /\ req' = [req EXCEPT ![r].pc = "blocked"]
  /\ Silent
  /\ UNCHANGED <<selected, store, openPorts, connected, defaultWallet, slices, denyTask, pushes, notifyDue>>

\* showExtensionPopup rejects: requestPermission and the handler reject with
\* it; nothing is posted.
PopupFailed(r) ==
  /\ r \in DOMAIN req
  /\ req[r].pc = "showPopup"
  /\ req' = Remove(req, r)
  /\ Silent
  /\ UNCHANGED <<selected, store, openPorts, connected, defaultWallet, slices, pending, blockedOrder, denyTask,
                 pushes, notifyDue>>

\* db.checkPermission resolves for the second check: the account list of the
\* persisted permission, or userRejectedRequest.
Rechecked(r) ==
  /\ r \in DOMAIN req
  /\ req[r].pc = "recheck"
  /\ LET found == checkPermission(r) IN
       IF found # {}
       THEN Respond(r, req[r].eventId,
                    RouteDecision(CHOOSE g \in found : TRUE, "eth_accounts", req[r].param).result)
       ELSE Respond(r, req[r].eventId, ErrorResult(USER_REJECTED))
  /\ pushed' = {} /\ emitted' = {} /\ invoked' = {} /\ windows' = {}
  /\ received' = {} /\ issued' = <<"postMessage">>
  /\ UNCHANGED <<selected, store, openPorts, connected, defaultWallet, slices, pending, blockedOrder, denyTask,
                 pushes, notifyDue>>

\* The calls the handler makes once the service has settled, in their order:
\* the finally callback removes the window the popup promise resolved with,
\* if it has an id, before the response is returned and posted.
\* SettleOrderReplyFirst posts before it removes.
SettleOrderReplyFirst(popupOutcome) ==
  IF popupOutcome = "created" THEN <<"postMessage", "windows.remove">>
  ELSE <<"postMessage">>

SettleOrder(popupOutcome) ==
  IF popupOutcome = "created" THEN <<"windows.remove", "postMessage">>
  ELSE <<"postMessage">>

\* What routeContentScriptRPCRequest returns once the service has settled:
\* the result of the service, or, when the service or the popup promise
\* rejected, the userRejectedRequest error of the catch clause.
\* SettledResultVerbatim returns the error it caught.
SettledResultVerbatim(method, ok, popupOutcome) ==
  IF ok /\ popupOutcome # "rejected"
  THEN ServiceResult(method)
  ELSE ErrorResult(IF ok THEN "popupError" ELSE "serviceError")

SettledResult(method, ok, popupOutcome) ==
  IF ok /\ popupOutcome # "rejected"
  THEN ServiceResult(method)
  ELSE ErrorResult(USER_REJECTED)

\* ServiceSettled with a rejection that is not caught: the handler ends with
\* it and posts nothing.
ServiceSettledUncaught(r, ok, popupOutcome) ==
  /\ r \in DOMAIN req
  /\ req[r].pc = "service"
  /\ (req[r].popup = "none") <=> (popupOutcome = "none")
  /\ req' = Remove(req, r)
  /\ posted' = IF ok /\ popupOutcome # "rejected"
               THEN {Reply(r, req[r].eventId, ServiceResult(req[r].method))}
               ELSE {}
  /\ windows' = IF popupOutcome = "created" THEN {[op |-> "remove", page |-> req[r].popup]} ELSE {}
  /\ pushed' = {} /\ emitted' = {} /\ invoked' = {}
  /\ received' = {[ok |-> ok, popup |-> popupOutcome]}
  /\ issued' = <<>>
  /\ UNCHANGED <<selected, store, openPorts, connected, defaultWallet, slices, pending, blockedOrder, denyTask,
                 pushes, notifyDue>>

\* routeSafeRPCRequest settles (ok or not) and, for a signing call, the popup
\* promise settles: created with an id, created without one, or rejected.
ServiceSettled(r, ok, popupOutcome) ==
  /\ r \in DOMAIN req
  /\ req[r].pc = "service"
  /\ (req[r].popup = "none") <=> (popupOutcome = "none")
  /\ Respond(r, req[r].eventId, SettledResult(req[r].method, ok, popupOutcome))
  /\ windows' = IF popupOutcome = "created" THEN {[op |-> "remove", page |-> req[r].popup]} ELSE {}
  /\ pushed' = {} /\ emitted' = {} /\ invoked' = {}
  /\ received' = {[ok |-> ok, popup |-> popupOutcome]}
  /\ issued' = SettleOrder(popupOutcome)
  /\ UNCHANGED <<selected, store, openPorts, connected, defaultWallet, slices, pending, blockedOrder, denyTask,
                 pushes, notifyDue>>

\* ------------------------------------------------- grant, deny and revoke
\* The resolver of `origin`, if one is stored, is called with `value` and
\* deleted: the handler it belongs to continues to its second checkPermission,
\* which reads the selected account and waits for db.checkPermission.
\* ResolveAnyOrigin calls a stored resolver whatever origin it is stored for;
\* ResolveNotCalled deletes the entry without calling the resolver;
\* ResolveKeepEntry calls the resolver and keeps the entry.
ResolveKeepEntry(origin, value) ==
  IF origin \in DOMAIN pending /\ pending[origin] \in DOMAIN req
  THEN /\ req' = [req EXCEPT ![pending[origin]].pc = "recheck",
                             ![pending[origin]].sel = selected,
                             ![pending[origin]].resolved = value]
       /\ UNCHANGED <<pending, blockedOrder>>
  ELSE UNCHANGED <<req, pending, blockedOrder>>

ResolveAnyOrigin(origin, value) ==
  IF DOMAIN pending # {}
  THEN LET o == CHOOSE x \in DOMAIN pending : TRUE IN
         /\ req' = [req EXCEPT ![pending[o]].pc = "recheck",
                               ![pending[o]].sel = selected,
                               ![pending[o]].resolved = value]
         /\ pending' = Remove(pending, o)
         /\ blockedOrder' = [blockedOrder EXCEPT ![o] = SeqWithout(@, pending[o])]
  ELSE UNCHANGED <<req, pending, blockedOrder>>

ResolveNotCalled(origin, value) ==
  /\ pending' = Remove(pending, origin)
  /\ UNCHANGED <<req, blockedOrder>>

Resolve(origin, value) ==
  IF origin \in DOMAIN pending
  THEN /\ req' = [req EXCEPT ![pending[origin]].pc = "recheck",
                             ![pending[origin]].sel = selected,
                             ![pending[origin]].resolved = value]
       /\ pending' = Remove(pending, origin)
       /\ blockedOrder' = [blockedOrder EXCEPT ![origin] = SeqWithout(@, pending[origin])]
  ELSE UNCHANGED <<req, pending, blockedOrder>>

\* grantPermission(permission): db.setPermission, then the resolver.
\* GrantPermissionUnchecked is the method without its argument check.
GrantPermissionUnchecked(permission) ==
  /\ store' = dbSetPermission(store, permission)
  /\ Resolve(permission.origin,
             [by |-> "grant", accountAddress |-> permission.accountAddress])
  /\ Out({}, {}, {}, {})
  /\ received' = IF permission.state # "allow" \/ permission.accountAddress = Empty
                 THEN {[returned |-> "argumentCheck"]} ELSE {}
  /\ issued' = <<>>
  /\ UNCHANGED <<selected, openPorts, connected, defaultWallet, slices, denyTask, pushes, notifyDue>>

GrantPermission(permission) ==
  /\ IF permission.state # "allow" \/ permission.accountAddress = Empty
     THEN /\ UNCHANGED <<store, req, pending, blockedOrder>>
          /\ received' = {[returned |-> "argumentCheck"]}
     ELSE /\ store' = dbSetPermission(store, permission)
          /\ Resolve(permission.origin,
                     [by |-> "grant", accountAddress |-> permission.accountAddress])
          /\ received' = {}
  /\ Out({}, {}, {}, {})
  /\ issued' = <<>>
  /\ UNCHANGED <<selected, openPorts, connected, defaultWallet, slices, denyTask, pushes, notifyDue>>

\* denyOrRevokePermission(permission) up to db.deletePermission: the argument
\* is checked and the selected account is read.
DenyOrRevokePermission(cap, permission) ==
  /\ IF permission.state # "deny" \/ permission.accountAddress = Empty
     THEN /\ UNCHANGED denyTask
          /\ received' = {[returned |-> "argumentCheck"]}
     ELSE /\ InFlight < cap
          /\ denyTask = {}
          /\ DOMAIN pushes = {}
          /\ denyTask' = {[permission |-> permission, address |-> selected]}
          /\ received' = {}
  /\ Out({}, {}, {}, {})
  /\ issued' = <<>>
  /\ UNCHANGED <<selected, store, openPorts, connected, defaultWallet, slices, req, pending, blockedOrder,
                 pushes, notifyDue>>

\* notifyContentScriptsAboutAddressChange(newAddress): forEach starts one
\* async callback per open port.  Every callback calls getSelectedAccount
\* inside the loop: the reads are issued together and take one value.  Each
\* callback then waits for db.checkPermission.
StartPushes(newAddress) ==
  [p \in openPorts |-> [newAddress |-> newAddress, sel |-> selected]]

\* The address denyOrRevokePermission deletes the permission of: the
\* selected address it read, not permission.accountAddress.
DeletedAddress(t) == t.address

\* db.deletePermission resolves: the resolver is called, and the ports are
\* notified (with no address).
DenyDeleted(t) ==
  /\ t \in denyTask
  /\ store' = dbDeletePermission(store, t.permission.origin, DeletedAddress(t))
  /\ Resolve(t.permission.origin, [by |-> "deny", accountAddress |-> Undefined])
  /\ denyTask' = {}
  /\ pushes' = StartPushes(Undefined)
  /\ Silent
  /\ UNCHANGED <<selected, openPorts, connected, defaultWallet, slices, notifyDue>>

\* ----------------------------------------------------------- account change
\* The user selects another account: the preferences are written.  due is
\* notifyDue with the switch added where the broadcast that follows it is
\* part of the specification.
SetSelectedAccount(a, due) ==
  /\ a # selected
  /\ selected' = a
  /\ notifyDue' = due
  /\ Silent
  /\ UNCHANGED <<store, openPorts, connected, defaultWallet, slices, req, pending, blockedOrder, denyTask, pushes>>

\* ... and, once written, the ports are notified of the new address.
NotifyAddressChange(a) ==
  /\ a \in notifyDue
  /\ denyTask = {}
  /\ DOMAIN pushes = {}
  /\ notifyDue' = notifyDue \ {a}
  /\ pushes' = StartPushes(a)
  /\ Silent
  /\ UNCHANGED <<selected, store, openPorts, connected, defaultWallet, slices, req, pending, blockedOrder, denyTask>>

\* The address checkPermission looks the origin up under, in the callback of
\* port p: the selected address (newAddress is not passed on).
PushCheckedAddress(p) == pushes[p].sel

\* db.checkPermission resolves in the callback of port p: the push is posted.
PushChecked(p) ==
  /\ p \in DOMAIN pushes
  /\ LET granted == HasPermission(store, PortOrigin(p), PushCheckedAddress(p)) IN
       pushed' = {[port |-> p, id |-> TALLY_ID, method |-> "tally_accountChanged",
                   address |-> IF granted THEN <<pushes[p].newAddress>> ELSE <<>>]}
  /\ pushes' = Remove(pushes, p)
  /\ posted' = {} /\ emitted' = {} /\ invoked' = {} /\ windows' = {}
  /\ received' = {} /\ issued' = <<"postMessage">>
  /\ UNCHANGED <<selected, store, openPorts, connected, defaultWallet, slices, req, pending, blockedOrder, denyTask,
                 notifyDue>>

\* ------------------------------------------------------------ wallet config
\* The preferences service stores a new default-wallet setting.
SetDefaultWallet(w) ==
  /\ defaultWallet # w
  /\ defaultWallet' = w
  /\ Silent
  /\ UNCHANGED <<selected, store, openPorts, connected, slices, req, pending, blockedOrder,
                 denyTask, pushes, notifyDue>>

\* The ports notifyContentScriptAboutConfigChange posts to.
\* ConfigChangeToGranted posts to the ports of the origins that hold a grant.
ConfigChangeToGranted == {p \in openPorts : \E g \in store : g.origin = PortOrigin(p)}

ConfigChangePorts == openPorts

\* notifyContentScriptAboutConfigChange(newDefaultWalletValue): one push per
\* port of openPorts, posted in one synchronous loop.
NotifyConfigChange(newDefaultWalletValue) ==
  /\ pushed' = {[port |-> p, id |-> TALLY_ID,
                  result |-> ConfigResult("tally_getConfig", newDefaultWalletValue)] :
                 p \in ConfigChangePorts}
  /\ posted' = {} /\ emitted' = {} /\ invoked' = {} /\ windows' = {}
  /\ received' = {[newDefaultWalletValue |-> newDefaultWalletValue]}
  /\ issued' = [i \in 1..Cardinality(ConfigChangePorts) |-> "postMessage"]
  /\ UNCHANGED <<selected, store, openPorts, connected, defaultWallet, slices, req, pending,
                 blockedOrder, denyTask, pushes, notifyDue>>

\* ------------------------------------------- transaction-construction
MaxThunks == 2

\* A step of the transaction-construction slice: the new state of the slice,
\* the thunks left waiting, the events emitted, what the step was resumed
\* with and the actions it dispatched.
TransactionStep(state, waiting, events, resumedWith, dispatched) ==
  /\ transactionConstruction' = state
  /\ thunks' = waiting
  /\ Out({}, events, {}, {})
  /\ received' = resumedWith
  /\ issued' = dispatched
  /\ UNCHANGED <<bridge, accountsState, networkData>>

Event(name, value) == [event |-> name, value |-> value]

\* The reducers, dispatched by the wallet and its UI.
TransactionRequest(payload) ==
  TransactionStep(transactionRequest(transactionConstruction, payload), thunks,
                  {}, {}, <<"transactionRequest">>)

ClearTransactionState(payload) ==
  TransactionStep(clearTransactionState(transactionConstruction, payload), thunks,
                  {}, {}, <<"clearTransactionState">>)

SetFeeType(payload) ==
  TransactionStep(setFeeType(transactionConstruction, payload), thunks,
                  {}, {}, <<"setFeeType">>)

BroadcastOnSign(payload) ==
  TransactionStep(broadcastOnSign(transactionConstruction, payload), thunks,
                  {}, {}, <<"broadcastOnSign">>)

TransactionLikelyFails ==
  TransactionStep(transactionLikelyFails(transactionConstruction), thunks,
                  {}, {}, <<"transactionLikelyFails">>)

EstimatedFeesPerGas(payload, now) ==
  /\ now >= transactionConstruction.lastGasEstimatesRefreshed
  /\ TransactionStep(estimatedFeesPerGas(transactionConstruction, payload, now), thunks,
                     {}, {}, <<"estimatedFeesPerGas">>)

SetCustomGas(payload) ==
  TransactionStep(setCustomGas(transactionConstruction, payload), thunks,
                  {}, {}, <<"setCustomGas">>)

\* updateTransactionOptions: its pending action reaches the extra reducer,
\* its payload creator emits updateOptions.
UpdateTransactionOptions ==
  TransactionStep(updateTransactionOptionsPending(transactionConstruction), thunks,
                  {Event("updateOptions", "options")}, {},
                  <<"updateTransactionOptions.pending">>)

\* signTransaction: the request is emitted, the slice is left alone.
SignTransaction ==
  TransactionStep(transactionConstruction, thunks,
                  {Event("requestSignature", "request")}, {}, <<>>)

\* transactionSigned(transaction) up to its await: signed is dispatched.
TransactionSigned(transaction) ==
  /\ Cardinality(thunks) < MaxThunks
  /\ \A k \in thunks : k.arg # transaction
  /\ TransactionStep(signed(transactionConstruction, transaction),
                     thunks \cup {[kind |-> "transactionSigned", arg |-> transaction]},
                     {}, {}, <<"signed">>)

\* The test transactionSigned makes on the state it reads.
BroadcastRequested(state) == OrElse(state.broadcastOnSign, {FALSE}) = {TRUE}

\* transactionSigned after its await: it reads the state and, if asked to,
\* dispatches broadcastSignedTransaction, which emits the transaction.
TransactionSignedRead(k) ==
  /\ k \in thunks /\ k.kind = "transactionSigned"
  /\ IF BroadcastRequested(transactionConstruction)
     THEN TransactionStep(transactionConstruction, thunks \ {k},
                          {Event("broadcastSignedTransaction", k.arg)},
                          {[thunk |-> k.kind, arg |-> k.arg]},
                          <<"broadcastSignedTransaction">>)
     ELSE TransactionStep(transactionConstruction, thunks \ {k}, {},
                          {[thunk |-> k.kind, arg |-> k.arg]}, <<>>)

\* rejectTransactionSignature up to its await: signatureRejected is emitted.
RejectTransactionSignature ==
  /\ Cardinality(thunks) < MaxThunks
  /\ \A k \in thunks : k.kind # "rejectTransactionSignature"
  /\ TransactionStep(transactionConstruction,
                     thunks \cup {[kind |-> "rejectTransactionSignature", arg |-> "none"]},
                     {Event("signatureRejected", "none")}, {}, <<>>)

\* rejectTransactionSignature after its await: the listeners have run and
\* the state is cleared; if a listener threw, the thunk ends with that error.
SignatureRejectedSettled(k, ok) ==
  /\ k \in thunks /\ k.kind = "rejectTransactionSignature"
  /\ IF ok
     THEN TransactionStep(clearTransactionState(transactionConstruction, Idle),
                          thunks \ {k}, {}, {[thunk |-> k.kind, fulfilled |-> TRUE]},
                          <<"clearTransactionState">>)
     ELSE TransactionStep(transactionConstruction, thunks \ {k}, {},
                          {[thunk |-> k.kind, fulfilled |-> FALSE]}, <<>>)

\* ------------------------------------------------------ accounts: reducers
\* accountsData.evm[chainID]?.[address], as an optional value.
\* accountDataAnyChain is the entry of the address on whatever chain has one.
accountDataAnyChain(evm, chainID, address) ==
  LET found == {evm[c][address] : c \in {c \in DOMAIN evm : address \in DOMAIN evm[c]}} IN
    IF found = {} THEN {} ELSE {CHOOSE d \in found : TRUE}

accountDataOf(evm, chainID, address) ==
  IF chainID \in DOMAIN evm /\ address \in DOMAIN evm[chainID]
  THEN {evm[chainID][address]}
  ELSE {}

\* accountsData.evm[chainID][address], read once the chain has its object.
EntryOf(evm, chainID, address) ==
  IF chainID \in DOMAIN evm /\ address \in DOMAIN evm[chainID]
  THEN {evm[chainID][address]}
  ELSE {}

\* accountsData.evm[chainID] ?? {}
ChainOf(evm, chainID) == IF chainID \in DOMAIN evm THEN evm[chainID] ELSE <<>>

\* evm with the entry of (chainID, address) set to data.
WithEntry(evm, chainID, address, data) ==
  Put(evm, chainID, Put(ChainOf(evm, chainID), address, data))

\* newAccountData without the default name and avatar, which no reducer reads.
newAccountData(address, network) ==
  [tag |-> "data", address |-> address, network |-> network, balances |-> <<>>,
   ens |-> [name |-> {}, avatarURL |-> {}]]

getOrCreateAccountData(data, account, network) ==
  IF data = {LOADING} \/ data = {}
  THEN newAccountData(account, network)
  ELSE CHOOSE d \in data : TRUE

loadAccount(state, payload) ==
  LET normalizedAddress == normalizeEVMAddress(payload.address)
      evm == state.accountsData.evm
  IN IF accountDataOf(evm, payload.network, normalizedAddress) # {}
     THEN state
     ELSE [state EXCEPT
             !.accountsData.evm = WithEntry(evm, payload.network, normalizedAddress, LOADING)]

deleteAccount(state, payload) ==
  LET normalizedAddress == normalizeEVMAddress(payload.address)
      evm == state.accountsData.evm
  IN IF ~\E chainID \in DOMAIN evm : normalizedAddress \in DOMAIN evm[chainID]
     THEN state
     ELSE [state EXCEPT
             !.accountsData.evm =
                [chainID \in DOMAIN evm |-> Remove(evm[chainID], normalizedAddress)]]

\* The body of the forEach of updateAccountBalance.
UpdatedBalance(evm, updatedAccountBalance) ==
  LET address == updatedAccountBalance.address
      network == updatedAccountBalance.network
      updatedAssetSymbol == updatedAccountBalance.assetAmount.asset.symbol
      normalizedAddress == normalizeEVMAddress(address)
      existingAccountData == accountDataOf(evm, network, normalizedAddress)
  IN IF existingAccountData = {} THEN evm
     ELSE IF existingAccountData # {LOADING}
     THEN WithEntry(evm, network, normalizedAddress,
                    [(CHOOSE d \in existingAccountData : TRUE) EXCEPT
                       !.balances = Put(@, updatedAssetSymbol, updatedAccountBalance)])
     ELSE WithEntry(evm, network, normalizedAddress,
                    [newAccountData(address, network) EXCEPT
                       !.balances = Put(<<>>, updatedAssetSymbol, updatedAccountBalance)])

RECURSIVE UpdatedBalances(_, _)
UpdatedBalances(evm, accountsWithBalances) ==
  IF accountsWithBalances = <<>> THEN evm
  ELSE UpdatedBalances(UpdatedBalance(evm, Head(accountsWithBalances)),
                       Tail(accountsWithBalances))

\* The balances of all accounts that have data: (chain, address, symbol).
BalanceKeys(evm) ==
  UNION {UNION {IF evm[c][a] = LOADING THEN {}
                ELSE {<<c, a, s>> : s \in DOMAIN evm[c][a].balances} :
                a \in DOMAIN evm[c]} :
         c \in DOMAIN evm}

RECURSIVE SumAmounts(_, _)
SumAmounts(evm, keys) ==
  IF keys = {} THEN 0
  ELSE LET k == CHOOSE k \in keys : TRUE IN
         evm[k[1]][k[2]].balances[k[3]].assetAmount.amount + SumAmounts(evm, keys \ {k})

\* combinedAccountBalances reduced by asset symbol.
CombinedAssets(evm) ==
  {[symbol |-> s, amount |-> SumAmounts(evm, {k \in BalanceKeys(evm) : k[3] = s})] :
   s \in {k[3] : k \in BalanceKeys(evm)}}

updateAccountBalance(state, accountsWithBalances) ==
  LET evm == UpdatedBalances(state.accountsData.evm, accountsWithBalances) IN
    [state EXCEPT !.accountsData.evm = evm, !.combinedData.assets = CombinedAssets(evm)]

updateAccountName(state, payload) ==
  LET normalizedAddress == normalizeEVMAddress(payload.address)
      evm == state.accountsData.evm
      baseAccountData ==
        getOrCreateAccountData(EntryOf(evm, payload.network, normalizedAddress),
                               normalizedAddress, payload.network)
  IN IF accountDataOf(evm, payload.network, normalizedAddress) = {}
     THEN state
     ELSE [state EXCEPT
             !.accountsData.evm =
                WithEntry(evm, payload.network, normalizedAddress,
                          [baseAccountData EXCEPT !.ens.name = {payload.name}])]

updateENSAvatar(state, payload) ==
  LET normalizedAddress == normalizeEVMAddress(payload.address)
      evm == state.accountsData.evm
      baseAccountData ==
        getOrCreateAccountData(EntryOf(evm, payload.network, normalizedAddress),
                               normalizedAddress, payload.network)
  IN IF accountDataOf(evm, payload.network, normalizedAddress) = {}
     THEN state
     ELSE [state EXCEPT
             !.accountsData.evm =
                WithEntry(evm, payload.network, normalizedAddress,
                          [baseAccountData EXCEPT !.ens.avatarURL = {payload.avatar}])]

\* ------------------------------------------------------- accounts: actions
\* A reducer of the accounts slice runs on a dispatched action.
AccountStep(type, payload, state) ==
  /\ accountsState' = state
  /\ Out({}, {}, {}, {})
  /\ received' = {[action |-> type, payload |-> payload]}
  /\ issued' = <<>>
  /\ UNCHANGED <<bridge, transactionConstruction, thunks, networkData>>

LoadAccount(payload) ==
  AccountStep("loadAccount", payload, loadAccount(accountsState, payload))

DeleteAccount(payload) ==
  AccountStep("deleteAccount", payload, deleteAccount(accountsState, payload))

UpdateAccountBalance(payload) ==
  AccountStep("updateAccountBalance", payload, updateAccountBalance(accountsState, payload))

UpdateAccountName(payload) ==
  AccountStep("updateAccountName", payload, updateAccountName(accountsState, payload))

UpdateENSAvatar(payload) ==
  AccountStep("updateENSAvatar", payload, updateENSAvatar(accountsState, payload))

\* ---------------------------------------------------------------- networks
\* blockHeight || 0
HeightOrZero(blockHeight) ==
  IF blockHeight = {} THEN 0 ELSE CHOOSE h \in blockHeight : TRUE

IsHigher(blockHeight, height) == height > HeightOrZero(blockHeight)

blockSeen(state, block) ==
  LET chainID == block.network.chainID
      known == state.networkData
      withHeight ==
        IF chainID \notin DOMAIN known
        THEN Put(known, chainID, [blocks |-> <<>>, blockHeight |-> {block.blockHeight}])
        ELSE IF IsHigher(known[chainID].blockHeight, block.blockHeight)
        THEN [known EXCEPT ![chainID].blockHeight = {block.blockHeight}]
        ELSE known
  IN [state EXCEPT
        !.networkData =
           [withHeight EXCEPT
              ![chainID].blocks = Put(@, block.blockHeight, block)]]

BlockSeen(block) ==
  /\ networkData' = blockSeen([networkData |-> networkData], block).networkData
  /\ Out({}, {}, {}, {})
  /\ received' = {[action |-> "blockSeen", payload |-> block]}
  /\ issued' = <<>>
  /\ UNCHANGED <<bridge, transactionConstruction, thunks, accountsState>>

\* ---------------------------------------------------------- specifications
PopupOutcomes == {"created", "noId", "rejected", "none"}

\* The steps of onMessageListener up to and through the consent flow, for the
\* requests of the methods M with the parameters S.
Handler(cap, M, S) ==
  \/ OnMessage(cap, M, S)
  \/ \E r \in ReqIds : CheckedPermission(r)
  \/ \E r \in ReqIds : RequestPermission(r)
  \/ \E r \in ReqIds : PopupShown(r)
  \/ \E r \in ReqIds : PopupFailed(r)
  \/ \E r \in ReqIds : Rechecked(r)

\* The gate under concurrency: account requests and config queries on ports that connect and
\* disconnect, against grants, denials and account switches.  The calls the
\* router dispatches are left to SpecRouter, the broadcast that follows an
\* account switch to SpecBroadcast.
Next ==
  \/ \E p \in GatePorts : Connect(p)
  \/ \E p \in GatePorts : Disconnect(p)
  \/ Handler(MaxInFlight, AccountMethods \cup ConfigMethods, {Undefined})
  \/ \E permission \in PermissionArgs : GrantPermission(permission)
  \/ \E permission \in PermissionArgs : DenyOrRevokePermission(MaxInFlight, permission)
  \/ \E t \in denyTask : DenyDeleted(t)
  \/ \E a \in Accounts : SetSelectedAccount(a, notifyDue)
  \/ \E p \in Ports : PushChecked(p)

Spec == Init /\ [][Next]_vars

\* Grants, denials, account switches and the account-change broadcasts, with
\* no request under way.
NextBroadcast ==
  \/ \E p \in Ports : Connect(p)
  \/ \E p \in Ports : Disconnect(p)
  \/ \E permission \in PermissionArgs : GrantPermission(permission)
  \/ \E permission \in PermissionArgs : DenyOrRevokePermission(MaxInFlight, permission)
  \/ \E t \in denyTask : DenyDeleted(t)
  \/ \E a \in Accounts : SetSelectedAccount(a, notifyDue \cup {a})
  \/ \E a \in Accounts : NotifyAddressChange(a)
  \/ \E p \in Ports : PushChecked(p)

SpecBroadcast == Init /\ [][NextBroadcast]_vars

\* The router on every method and every parameter, one request at a time;
\* the consent flow of eth_requestAccounts is left to Spec.
NextRouter ==
  \/ \E p \in Ports : Connect(p)
  \/ OnMessage(MaxRunning, AllMethods \ {"eth_requestAccounts"}, SignerParams)
  \/ OnMessageNoUrl
  \/ \E r \in ReqIds : CheckedPermission(r)
  \/ \E r \in ReqIds, ok \in BOOLEAN, w \in PopupOutcomes : ServiceSettled(r, ok, w)
  \/ \E permission \in PermissionArgs : GrantPermission(permission)
  \/ \E a \in Accounts : SetSelectedAccount(a, notifyDue)

SpecRouter == Init /\ [][NextRouter]_vars

\* The router with promises that settle: db.checkPermission resolves, and the
\* internal provider and the popup promise of a dispatched call settle.
SpecRouterFair ==
  /\ SpecRouter
  /\ \A r \in ReqIds :
       /\ WF_vars(CheckedPermission(r))
       /\ WF_vars(\E ok \in BOOLEAN, w \in PopupOutcomes : ServiceSettled(r, ok, w))

\* The gate on two ports of different origins: requests of every kind of
\* method run side by side, through the consent flow and the dispatch,
\* against grants and account switches.
GateMethods ==
  AccountMethods \cup OtherMethods \cup ConfigMethods \cup {"personal_sign", "eth_sendTransaction"}

NextGate ==
  \/ \E p \in Ports : Connect(p)
  \/ Handler(MaxInFlight, GateMethods, Accounts)
  \/ \E r \in ReqIds, ok \in BOOLEAN, w \in PopupOutcomes : ServiceSettled(r, ok, w)
  \/ \E o \in Origins, a \in Accounts : GrantPermission(Permission(o, a, "allow"))
  \/ \E a \in Accounts : SetSelectedAccount(a, notifyDue)

SpecGate == Init /\ [][NextGate]_vars

\* The ports and the wallet config: ports of every kind connect and
\* disconnect, pages query the config and the accounts, the default-wallet
\* setting changes and is broadcast, origins are granted.
ConfigSpecMethods == ConfigMethods \cup {"eth_accounts"}

NextConfig ==
  \/ \E p \in AnyPorts : Connect(p)
  \/ \E p \in AnyPorts : Disconnect(p)
  \/ \E p \in AnyPorts : OnMessageUnregistered(p)
  \/ OnMessage(MaxInFlight, ConfigSpecMethods, {Undefined})
  \/ \E r \in ReqIds : CheckedPermission(r)
  \/ \E o \in Origins : GrantPermission(Permission(o, selected, "allow"))
  \/ \E w \in BOOLEAN : SetDefaultWallet(w)
  \/ \E w \in BOOLEAN : NotifyConfigChange(w)

SpecConfig == Init /\ [][NextConfig]_vars

\* The transaction-construction slice under every order of its reducers and
\* thunks.
NextTransaction ==
  \/ \E payload \in TransactionRequestPayloads : TransactionRequest(payload)
  \/ \E payload \in TransactionConstructionStatus : ClearTransactionState(payload)
  \/ \E payload \in NetworkFeeTypeChosen : SetFeeType(payload)
  \/ \E payload \in BOOLEAN : BroadcastOnSign(payload)
  \/ TransactionLikelyFails
  \/ \E payload \in BlockPricesPayloads, now \in Times : EstimatedFeesPerGas(payload, now)
  \/ \E payload \in CustomGasPayloads : SetCustomGas(payload)
  \/ UpdateTransactionOptions
  \/ SignTransaction
  \/ \E transaction \in SignedTransactions : TransactionSigned(transaction)
  \/ \E k \in thunks : TransactionSignedRead(k)
  \/ RejectTransactionSignature
  \/ \E k \in thunks, ok \in BOOLEAN : SignatureRejectedSettled(k, ok)

SpecTransaction == Init /\ [][NextTransaction]_vars

\* The accounts slice under every order of its reducers.
NextAccounts ==
  \/ \E payload \in AccountInputs : LoadAccount(payload)
  \/ \E payload \in AccountInputs : DeleteAccount(payload)
  \/ \E payload \in BalancePayloads : UpdateAccountBalance(payload)
  \/ \E payload \in NameInputs : UpdateAccountName(payload)
  \/ \E payload \in AvatarInputs : UpdateENSAvatar(payload)

SpecAccounts == Init /\ [][NextAccounts]_vars

\* The networks slice under every order of the blocks it is told of.
NextNetworks == \E block \in BlockInputs : BlockSeen(block)

SpecNetworks == Init /\ [][NextNetworks]_vars

\* ================================================================ properties
\* The first checkPermission of request r resolves in this step.
Handled(r) ==
  /\ r \in DOMAIN req
  /\ req[r].pc = "checkPermission"
  /\ r \notin DOMAIN req' \/ req'[r].pc # "checkPermission"

\* Request r is answered with `result` in this step, under its own id.
Answered(r, result) ==
  posted' = {[port |-> req[r].port, id |-> req[r].eventId, method |-> req[r].method,
              param |-> req[r].param, resolved |-> req[r].resolved, result |-> result]}

\* The grants the store holds for the origin of request r and the account
\* the handler of r read as selected.
GrantsOf(r) ==
  {g \in store : g.origin = PortOrigin(req[r].port) /\ g.accountAddress = req[r].sel}

\* A dApp RPC call: neither the wallet-config query nor the claim-referral message.
DappRpc(method) == method \notin ConfigMethods \cup ClaimMethods

\* Two addresses are the same up to the case of their hex digits.
EqualIgnoringCase(a, b) ==
  /\ a # Undefined /\ b # Undefined
  /\ Len(a) = Len(b)
  /\ \A i \in 1..Len(a) :
        \/ a[i] = b[i]
        \/ <<a[i], b[i]>> \in {<<"a", "A">>, <<"A", "a">>, <<"b", "B">>, <<"B", "b">>,
                               <<"c", "C">>, <<"C", "c">>}

\* C1 (as stated): a request of an origin without a grant for the selected
\* account, of any method other than eth_requestAccounts, is answered with
\* the unauthorized error.
C1_AnyMethodUnauthorized ==
  [][\A r \in ReqIds :
       (Handled(r) /\ req[r].method # "eth_requestAccounts" /\ GrantsOf(r) = {})
         => Answered(r, ErrorResult(UNAUTHORIZED))]_vars

\* C1 (amended): a dApp RPC call (not the wallet-config query, not the
\* claim-referral message) of an origin without a grant for the selected
\* account, of any method other than eth_requestAccounts, is answered with
\* the unauthorized error and reaches neither the internal provider nor a popup.
C1_DappRpcUnauthorized ==
  [][\A r \in ReqIds :
       (Handled(r) /\ DappRpc(req[r].method) /\ req[r].method # "eth_requestAccounts"
          /\ GrantsOf(r) = {})
         => /\ Answered(r, ErrorResult(UNAUTHORIZED))
            /\ invoked' = {} /\ windows' = {} /\ emitted' = {}]_vars

\* A dApp RPC call was just answered unauthorized, on a port whose origin has
\* no grant for the selected account.
C1_Witness ==
  \E m \in posted :
    /\ m.result = ErrorResult(UNAUTHORIZED)
    /\ m.method \in SigningFamily
    /\ ~HasPermission(store, PortOrigin(m.port), selected)

C4_AccountsOfGrant ==
  [][/\ \A r \in ReqIds :
          (Handled(r) /\ req[r].method \in AccountMethods /\ GrantsOf(r) # {})
            => Answered(r, AccountsResult(<<req[r].sel>>))
     /\ \A r \in DOMAIN req, m \in posted' :
          (r \notin DOMAIN req' /\ m.result.tag = "accounts")
            => /\ m.result.value = <<req[r].sel>>
               /\ \E g \in store : /\ g.origin = PortOrigin(m.port)
                                    /\ g.accountAddress = req[r].sel]_vars

\* A granted origin was just answered the selected account, with a grant
\* for the other account in the store too.
C4_Witness ==
  \E m \in posted :
    /\ m.method \in AccountMethods
    /\ m.resolved = NotResolved
    /\ m.result = AccountsResult(<<selected>>)
    /\ \A a \in Accounts : HasPermission(store, PortOrigin(m.port), a)

\* C5 (as stated): no tally_accountChanged push carries an address for which
\* the origin of its port holds no grant.  (The pushes of the broadcast a
\* denial starts, which carry no address at all, are left aside here.)
C5_NoAddressWithoutGrant ==
  \A m \in pushed :
    (m.address # <<>> /\ m.address # <<Undefined>>)
      => HasPermission(store, PortOrigin(m.port), m.address[1])

\* C6 (as stated): in the broadcast a denial starts, a port whose origin
\* holds a grant for the selected account is sent the selected address, and
\* every other port an empty list.
C6_DenyBroadcast ==
  [][\A p \in DOMAIN pushes :
       (p \notin DOMAIN pushes' /\ pushes[p].newAddress = Undefined)
         => \E m \in pushed' :
              /\ m.port = p
              /\ m.address = IF HasPermission(store, PortOrigin(p), selected)
                             THEN <<selected>>
                             ELSE <<>>]_vars

\* C7 (as stated): denyOrRevokePermission(permission) removes from the store
\* the grant of (permission.origin, permission.accountAddress) and nothing else.
C7_DenyRemovesGivenGrant ==
  [][\A t \in denyTask :
       denyTask' = {}
         => store' = {g \in store : ~(/\ g.origin = t.permission.origin
                                       /\ g.accountAddress = t.permission.accountAddress)}]_vars

\* The origin of request r.
OriginOf(r) == PortOrigin(req[r].port)

\* A grantPermission call that is not ignored completes for origin o, account a.
Granting(o, a) ==
  GrantPermission(Permission(o, a, "allow"))

\* Request r, resumed, is answered in this step.
Finishes(r) ==
  r \in DOMAIN req /\ req[r].pc = "recheck" /\ r \notin DOMAIN req'

Denying(o) ==
  \E t \in denyTask : t.permission.origin = o /\ DenyDeleted(t)

\* C9 (as stated): a grant or a denial for origin O that is not ignored
\* resumes the request of O that awaits consent, whether the request has
\* only emitted its event and asked for the popup or has stored its resolver.
C9_DecisionResumesWaiting ==
  [][\A r \in ReqIds :
       (/\ r \in DOMAIN req
        /\ req[r].pc \in {"showPopup", "blocked"}
        /\ \A q \in DOMAIN req : q # r => OriginOf(q) # OriginOf(r)
        /\ (Denying(OriginOf(r)) \/ \E a \in Accounts : Granting(OriginOf(r), a)))
         => req'[r].pc = "recheck"]_vars

\* The requests of origin o blocked behind a resolver.
BlockedOf(o) == {r \in DOMAIN req : req[r].pc = "blocked" /\ OriginOf(r) = o}

\* C10: the table holds at most one resolver per origin, that of the request
\* of the origin that blocked last; a request that blocks while another one
\* of its origin is blocked takes the entry over; and, with requests of
\* the origin blocked, a grant or a denial resumes exactly the one request
\* whose resolver is stored, leaving every other request as it was.
C10_OneResolverPerOrigin ==
  [][\A o \in Origins :
          /\ o \in DOMAIN pending'
               => /\ pending'[o] \in BlockedOf(o)'
                  /\ Len(blockedOrder'[o]) > 0
                  /\ pending'[o] = blockedOrder'[o][Len(blockedOrder'[o])]
          /\ \A r \in ReqIds :
               (r \in DOMAIN req /\ req[r].pc = "showPopup" /\ OriginOf(r) = o
                  /\ r \in DOMAIN req' /\ req'[r].pc = "blocked")
                 => /\ pending'[o] = r
                    /\ BlockedOf(o)' = BlockedOf(o) \cup {r}
          /\ (/\ BlockedOf(o) # {}
              /\ (Denying(o) \/ \E a \in Accounts : Granting(o, a)))
               => /\ o \notin DOMAIN pending'
                  /\ IF o \in DOMAIN pending
                     THEN /\ BlockedOf(o)' = BlockedOf(o) \ {pending[o]}
                          /\ req'[pending[o]].pc = "recheck"
                     ELSE BlockedOf(o)' = BlockedOf(o)
                  /\ \A r \in DOMAIN req :
                       r \notin BlockedOf(o) => req'[r] = req[r]]_vars

\* Two requests of one origin are blocked, the resolver stored being that
\* of the one that blocked last.
C10_Witness ==
  \E o \in DOMAIN pending :
    /\ Cardinality(BlockedOf(o)) = 2
    /\ Len(blockedOrder[o]) = 2
    /\ pending[o] = blockedOrder[o][2]

\* C11 (as stated): no tally_accountChanged push is posted on a port that
\* its disconnect listener has removed from openPorts.
C11_NoPushAfterDisconnect ==
  \A m \in pushed : m.port \in openPorts

\* C12: every permission the store holds has state allow and a non-empty
\* accountAddress, whatever arguments grantPermission and
\* denyOrRevokePermission were called with.
C12_StoredGrantsAllowed ==
  \A g \in store : g.state = "allow" /\ g.accountAddress # Empty

\* Grants for both accounts of one origin are stored, a denial under way.
C12_Witness ==
  /\ \E o \in Origins : \A a \in Accounts : Permission(o, a, "allow") \in store
  /\ denyTask # {}

\* The store holds a grant for the origin of request r and another account
\* than the one the handler of r read as selected, and none for that one.
OtherAccountGranted(r) ==
  /\ GrantsOf(r) = {}
  /\ \E g \in store : g.origin = OriginOf(r) /\ g.accountAddress # req[r].sel

\* C13: a grant for an origin and account A does not authorize the origin
\* while another account B is selected and the origin has no grant for B: a
\* dApp RPC call of the origin other than eth_requestAccounts is answered
\* unauthorized and reaches neither the internal provider nor a popup, and
\* eth_requestAccounts is not answered but starts the consent flow (the
\* requestPermission event for the origin, the dappPermission popup).
C13_GrantOfOtherAccount ==
  [][\A r \in ReqIds :
       /\ (Handled(r) /\ DappRpc(req[r].method) /\ OtherAccountGranted(r))
            => IF req[r].method = "eth_requestAccounts"
               THEN /\ r \in DOMAIN req' /\ req'[r].pc = "getAccount"
                    /\ posted' = {} /\ invoked' = {}
               ELSE /\ Answered(r, ErrorResult(UNAUTHORIZED))
                    /\ invoked' = {} /\ windows' = {}
       /\ (r \in DOMAIN req /\ req[r].pc = "getAccount" /\ req'[r] # req[r])
            => /\ emitted' = {[event |-> "requestPermission", origin |-> OriginOf(r),
                               value |-> selected]}
               /\ windows' = {[op |-> "create", page |-> "dappPermission"]}
               /\ posted' = {}]_vars

\* After an account switch, a call of an origin that holds a grant for the
\* account that is no longer selected was just answered unauthorized.
C13_Witness ==
  \E m \in posted :
    /\ m.result = ErrorResult(UNAUTHORIZED)
    /\ m.method \in {"eth_accounts", "personal_sign"}
    /\ \E g \in store : g.origin = PortOrigin(m.port) /\ g.accountAddress # selected
    /\ ~HasPermission(store, PortOrigin(m.port), selected)

\* C14: a result the gate posts is a successful result or an error whose
\* code is unauthorized or userRejectedRequest.  A call whose service or
\* popup failed is answered with userRejectedRequest, not with the failure;
\* a consent flow whose popup failed posts nothing.
C14_TwoErrorCodes ==
  [][/\ \A m \in posted' :
          m.result.tag = "error" => m.result.value \in {UNAUTHORIZED, USER_REJECTED}
     /\ \A r \in ReqIds :
          /\ (r \in DOMAIN req /\ req[r].pc = "service" /\ r \notin DOMAIN req')
               => \/ Answered(r, ServiceResult(req[r].method))
                  \/ Answered(r, ErrorResult(USER_REJECTED))
          /\ (r \in DOMAIN req /\ req[r].pc = "showPopup" /\ r \notin DOMAIN req')
               => posted' = {}]_vars

\* A call that needs no popup was dispatched to the internal provider, which
\* failed, and was just answered userRejectedRequest.
C14_Witness ==
  \E m \in posted :
    /\ m.method \in OtherMethods
    /\ m.result = ErrorResult(USER_REJECTED)

\* C15: when the internal provider settles a signing-family call whose popup
\* window was opened (the popup promise resolved with a window that has an
\* id), the window is removed, whether the provider resolved or rejected, and
\* windows.remove is called before the response is posted.
C15_PopupClosedBeforeReply ==
  [][\A r \in ReqIds :
       (/\ r \in DOMAIN req /\ req[r].pc = "service" /\ r \notin DOMAIN req'
        /\ req[r].method \in SigningFamily
        /\ \E s \in received' : s.popup = "created")
         => /\ windows' = {[op |-> "remove", page |-> PopupFor(req[r].method)]}
            /\ \E s \in received' :
                 Answered(r, IF s.ok THEN ServiceResult(req[r].method)
                             ELSE ErrorResult(USER_REJECTED))
            /\ issued' = <<"windows.remove", "postMessage">>]_vars

\* The internal provider rejected a signing call whose popup was open: the
\* window was removed and the call answered userRejectedRequest.
C15_Witness ==
  /\ \E s \in received : s = [ok |-> FALSE, popup |-> "created"]
  /\ \E m \in posted : m.method \in SigningFamily /\ m.result = ErrorResult(USER_REJECTED)
  /\ \E w \in windows : w.op = "remove"

\* C16: a response is posted on the port its request arrived on and on no
\* other port: every step that posts ends exactly one request and posts
\* exactly one message, on the port of that request, also when the request
\* was suspended in the consent flow while the other port sent messages.
C16_ReplyOnRequestPort ==
  [][posted' # {} =>
       \E r \in DOMAIN req :
         /\ r \notin DOMAIN req'
         /\ \A q \in DOMAIN req \ {r} : q \in DOMAIN req' /\ req'[q] = req[q]
         /\ Cardinality(posted') = 1
         /\ \A m \in posted' : m.port = req[r].port /\ m.method = req[r].method]_vars

\* A request that was suspended in the consent flow was just answered on its
\* port while a request that arrived on the other port is under way.
C16_Witness ==
  \E m \in posted :
    /\ m.resolved.by = "grant"
    /\ \E r \in DOMAIN req : req[r].port # m.port

C18_NoUrlDropped ==
  [][received' = {[url |-> NO_URL]}
       => /\ posted' = {} /\ pushed' = {} /\ emitted' = {} /\ windows' = {} /\ invoked' = {}
          /\ issued' = <<>>
          /\ UNCHANGED <<store, pending, blockedOrder, openPorts, req, selected>>]_vars

\* A message without a sender url was just dropped by a gate that holds a
\* grant, an open port and a dispatched request.
C18_Witness ==
  /\ received = {[url |-> NO_URL]}
  /\ posted = {}
  /\ store # {} /\ openPorts # {}
  /\ \E r \in DOMAIN req : req[r].pc = "service"

\* C19: a request suspended on the user's decision does not hold up any
\* other message, on its own port or on the other one.  While requests are
\* suspended the gate takes a new message; the handler of another request
\* runs on: in the step its first checkPermission resolves, the request is
\* answered on its port, or dispatched to the internal provider, or (an
\* eth_requestAccounts without grant) enters its own consent flow; a
\* dispatched request is answered when the provider settles; and the
\* suspended request stays as it is.
C19_SuspendedHoldsNothingUp ==
  [][/\ (/\ DOMAIN req # {} /\ DOMAIN req # ReqIds /\ openPorts # {}
         /\ \A b \in DOMAIN req : req[b].pc = "blocked")
          => ENABLED OnMessage(MaxInFlight, GateMethods, Accounts)
     /\ \A b, r \in DOMAIN req :
          (req[b].pc = "blocked" /\ r # b)
            => /\ req[r].pc = "checkPermission" => ENABLED CheckedPermission(r)
               /\ req[r].pc = "service"
                    => \E ok \in BOOLEAN, w \in PopupOutcomes : ENABLED ServiceSettled(r, ok, w)
               /\ Handled(r)
                    => /\ req'[b] = req[b]
                       /\ IF req[r].method = "eth_requestAccounts" /\ GrantsOf(r) = {}
                          THEN req'[r].pc = "getAccount"
                          ELSE \/ /\ r \notin DOMAIN req'
                                  /\ Cardinality(posted') = 1
                                  /\ \A m \in posted' : m.port = req[r].port
                               \/ /\ r \in DOMAIN req' /\ req'[r].pc = "service"
                                  /\ invoked' # {}
               /\ (req[r].pc = "service" /\ r \notin DOMAIN req')
                    => /\ req'[b] = req[b]
                       /\ Cardinality(posted') = 1
                       /\ \A m \in posted' : m.port = req[r].port]_vars

\* A request was just answered on a port on which an eth_requestAccounts
\* request is suspended.
C19_Witness ==
  \E m \in posted, b \in DOMAIN req :
    /\ req[b].pc = "blocked"
    /\ req[b].port = m.port
    /\ m.method # "eth_requestAccounts"

\* Request r is a dApp RPC call of an origin that holds a grant for the
\* selected account: its check is about to find the grant, or has found it
\* and dispatched the call.
GrantedCall(r) ==
  /\ r \in DOMAIN req
  /\ DappRpc(req[r].method)
  /\ \/ req[r].pc = "checkPermission" /\ GrantsOf(r) # {}
     \/ req[r].pc = "service"

Get(db, o, a) == {g \in db : g.origin = o /\ g.accountAddress = a}

\* Every key but (o, a) is looked up in the store as before the step.
OtherKeysKept(o, a) ==
  \A o2 \in Origins, a2 \in Accounts \cup {Empty} :
    <<o2, a2>> # <<o, a>> => Get(store', o2, a2) = Get(store, o2, a2)

\* C21: after db.setPermission(permission) the lookup of (permission.origin,
\* permission.accountAddress) finds that permission and nothing else; after
\* db.deletePermission(origin, address) the lookup of (origin, address) finds
\* nothing; and the lookup of every other key is as it was.
C21_StoreRoundTrip ==
  [][/\ \A o \in Origins, a \in Accounts :
          Granting(o, a)
            => /\ Get(store', o, a) = {Permission(o, a, "allow")}
               /\ OtherKeysKept(o, a)
     /\ \A t \in denyTask :
          DenyDeleted(t)
            => /\ Get(store', t.permission.origin, DeletedAddress(t)) = {}
               /\ OtherKeysKept(t.permission.origin, DeletedAddress(t))]_vars

\* A permission was deleted from a store that keeps another permission of
\* the same origin and one of the other origin.
C21_Witness ==
  /\ \E p \in DOMAIN pushes : pushes[p].newAddress = Undefined
  /\ \E g, h \in store : g.origin # h.origin
  /\ \E o \in Origins :
       Cardinality({g \in store : g.origin = o}) = 1

\* Request r is blocked on the user's decision and the resolver stored for
\* its origin, if there is one, is not its own.
Orphaned(r) ==
  /\ r \in DOMAIN req
  /\ req[r].pc = "blocked"
  /\ OriginOf(r) \in DOMAIN pending => pending[OriginOf(r)] # r

\* C22: when a second eth_requestAccounts request of an origin blocks while
\* a first one of that origin is blocked, the first one loses its resolver;
\* from then on no step (no grant, no denial, no other message) changes or
\* ends it, so it is never answered.
C22_FirstCallerOrphaned ==
  [][\A r \in ReqIds :
       /\ (/\ r \in DOMAIN req /\ req[r].pc = "blocked"
           /\ OriginOf(r) \in DOMAIN pending /\ pending[OriginOf(r)] = r
           /\ \E q \in DOMAIN req \ {r} :
                /\ OriginOf(q) = OriginOf(r) /\ req[q].pc = "showPopup"
                /\ q \in DOMAIN req' /\ req'[q].pc = "blocked")
            => Orphaned(r)'
       /\ Orphaned(r)
            => /\ Orphaned(r)'
               /\ req'[r] = req[r]]_vars

\* A request stays blocked without a resolver after the decision that
\* followed has resumed the second request of its origin and that request
\* has been answered: a permission of the origin is stored, no resolver is.
C22_Witness ==
  \E r \in DOMAIN req :
    /\ Orphaned(r)
    /\ OriginOf(r) \notin DOMAIN pending
    /\ \E m \in posted :
         /\ m.method = "eth_requestAccounts" /\ m.resolved.by = "grant"
         /\ PortOrigin(m.port) = OriginOf(r)

\* C23 (as stated): neither a response nor a push is posted on a port that
\* its disconnect listener has removed from openPorts.
C23_NoPostAfterDisconnect ==
  /\ \A m \in posted : m.port \in openPorts
  /\ \A m \in pushed : m.port \in openPorts

\* C24: a request resumed from its wait takes the account that is selected
\* when it resumes and looks the store up again for its origin and that
\* account: it is answered with the account list of that permission if and
\* only if the lookup finds one, and with userRejectedRequest otherwise,
\* whether a grant or a denial resumed it.
C24_RecheckDecidesReply ==
  [][\A r \in ReqIds :
       /\ (r \in DOMAIN req /\ req[r].pc = "blocked"
             /\ r \in DOMAIN req' /\ req'[r] # req[r])
            => /\ req'[r].pc = "recheck"
               /\ req'[r].sel = selected
               /\ req'[r].resolved.by \in {"grant", "deny"}
               /\ posted' = {}
       /\ Finishes(r)
            => /\ GrantsOf(r) # {} <=> Answered(r, AccountsResult(<<req[r].sel>>))
               /\ GrantsOf(r) = {} <=> Answered(r, ErrorResult(USER_REJECTED))]_vars

\* A request resumed by a denial was just answered userRejectedRequest.
C24_Witness ==
  \E m \in posted :
    /\ m.method = "eth_requestAccounts"
    /\ m.resolved.by = "deny"
    /\ m.result = ErrorResult(USER_REJECTED)

\* C25: a request in the consent flow is not answered before grantPermission
\* or denyOrRevokePermission has acted for its origin: no step posts a
\* response for it while it waits, and the only steps that change a blocked
\* request are a grant or a denial for its origin, which resume it; every
\* other step (messages, pushes, connects, disconnects, account switches,
\* decisions for another origin) leaves it blocked.
C25_OnlyDecisionEndsWait ==
  [][\A r \in ReqIds :
       /\ (r \in DOMAIN req /\ req[r].pc \in {"getAccount", "showPopup", "blocked"})
            => /\ r \notin DOMAIN req' => posted' = {}
               /\ \A m \in posted' : m.resolved # NotResolved => r \in DOMAIN req'
       /\ (r \in DOMAIN req /\ req[r].pc = "blocked"
             /\ (r \notin DOMAIN req' \/ req'[r] # req[r]))
            => /\ Denying(OriginOf(r)) \/ \E a \in Accounts : Granting(OriginOf(r), a)
               /\ r \in DOMAIN req' /\ req'[r].pc = "recheck"
       /\ Finishes(r) => req[r].resolved.by \in {"grant", "deny"}]_vars

\* A request is still blocked behind its resolver after a denial for the
\* other origin has completed and its push has been posted.
C25_Witness ==
  \E r \in DOMAIN req :
    /\ req[r].pc = "blocked"
    /\ OriginOf(r) \in DOMAIN pending /\ pending[OriginOf(r)] = r
    /\ pushed # {}

\* C26 (as stated): the gate removes the dappPermission popup of a consent
\* flow once the wait is over: by the step that answers the resumed request
\* browser.windows.remove has been called for it, after a grant and after a
\* denial alike.
C26_ConsentPopupClosed ==
  [][\A r \in ReqIds :
       Finishes(r) => [op |-> "remove", page |-> "dappPermission"] \in windows']_vars

\* C27: the table holds a resolver for an origin only while the request it
\* belongs to, a request of that origin, is blocked on it; a resolver is
\* called at most once (the request it resumes is blocked and is not
\* resumed again), and the step that calls it deletes the entry, as every
\* step that deletes an entry calls its resolver.
C27_PendingTableTransient ==
  [][/\ \A o \in DOMAIN pending' :
          /\ pending'[o] \in DOMAIN req'
          /\ req'[pending'[o]].pc = "blocked"
          /\ PortOrigin(req'[pending'[o]].port) = o
     /\ \A o \in DOMAIN pending :
          (o \notin DOMAIN pending' \/ pending'[o] # pending[o])
            => \/ /\ o \notin DOMAIN pending'
                  /\ req[pending[o]].pc = "blocked"
                  /\ req'[pending[o]].pc = "recheck"
               \/ /\ o \in DOMAIN pending'
                  /\ req[pending'[o]].pc = "showPopup"
                  /\ req'[pending[o]] = req[pending[o]]
     /\ \A r \in DOMAIN req :
          (r \in DOMAIN req' /\ req[r].pc # "recheck" /\ req'[r].pc = "recheck")
            => /\ OriginOf(r) \in DOMAIN pending /\ pending[OriginOf(r)] = r
               /\ OriginOf(r) \notin DOMAIN pending'
     /\ \A r \in DOMAIN req :
          req[r].pc = "recheck" => (r \notin DOMAIN req' \/ req'[r] = req[r])]_vars

\* A denial has called the resolver of an origin: the request is resumed
\* and the table holds no entry for the origin.
C27_Witness ==
  \E r \in DOMAIN req :
    /\ req[r].pc = "recheck"
    /\ req[r].resolved.by = "deny"
    /\ OriginOf(r) \notin DOMAIN pending

\* The arguments grantPermission and denyOrRevokePermission return on.
IgnoredByGrant(permission) ==
  permission.state # "allow" \/ permission.accountAddress = Empty

IgnoredByDeny(permission) ==
  permission.state # "deny" \/ permission.accountAddress = Empty

\* C28: grantPermission with a state other than allow or an empty
\* accountAddress, and denyOrRevokePermission with a state other than deny or
\* an empty accountAddress, leave the store as it is, start no deletion and
\* no account-change broadcast, post no push and call no resolver.
C28_IgnoredCallsChangeNothing ==
  [][\A permission \in PermissionArgs :
       /\ (IgnoredByGrant(permission) /\ GrantPermission(permission))
            => /\ UNCHANGED <<store, denyTask, pushes, notifyDue, pending, req>>
               /\ pushed' = {} /\ posted' = {}
       /\ (IgnoredByDeny(permission) /\ DenyOrRevokePermission(MaxInFlight, permission))
            => /\ UNCHANGED <<store, denyTask, pushes, notifyDue, pending, req>>
               /\ pushed' = {} /\ posted' = {}]_vars

\* A call has just returned at its argument check, with permissions stored
\* and ports open that a broadcast would reach.
C28_Witness ==
  /\ received = {[returned |-> "argumentCheck"]}
  /\ store # {}
  /\ openPorts # {}
  /\ DOMAIN pushes = {} /\ denyTask = {}

\* The popup page of each signing family.
PageOfFamily(method) ==
  IF method \in TypedDataMethods THEN "signData"
  ELSE IF method \in SignMethods THEN "personalSignData"
  ELSE "signTransaction"

\* C29: a signing-family call of a granted origin whose signer address is
\* that of the grant opens one popup, of the page of its family, and is
\* handed to the internal provider once, with its method and parameters; it
\* is not answered in that step, and the step that settles it neither opens
\* a popup nor calls the provider again.
C29_OnePopupOneDispatch ==
  [][\A r \in ReqIds :
       /\ (Handled(r) /\ req[r].method \in SigningFamily
             /\ \E g \in GrantsOf(r) : EqualIgnoringCase(req[r].param, g.accountAddress))
            => /\ windows' = {[op |-> "create", page |-> PageOfFamily(req[r].method)]}
               /\ invoked' = {[method |-> req[r].method, param |-> req[r].param]}
               /\ issued' = <<"windows.create", "routeSafeRPCRequest">>
               /\ posted' = {}
               /\ r \in DOMAIN req' /\ req'[r].pc = "service"
       /\ (r \in DOMAIN req /\ req[r].pc = "service" /\ (r \notin DOMAIN req' \/ req'[r] # req[r]))
            => /\ r \notin DOMAIN req'
               /\ invoked' = {}
               /\ \A w \in windows' : w.op = "remove"]_vars

\* A transaction call was just dispatched: its popup is being opened and
\* the internal provider has been called with it.
C29_Witness ==
  \E r \in DOMAIN req :
    /\ req[r].pc = "service"
    /\ req[r].method \in TransactionMethods
    /\ windows = {[op |-> "create", page |-> "signTransaction"]}
    /\ invoked = {[method |-> req[r].method, param |-> req[r].param]}

\* C30: an eth_accounts or eth_requestAccounts request of an origin that
\* holds a grant for the selected account is answered in the step its check
\* resolves, with the account of the grant, and that step opens no popup,
\* emits no requestPermission event, stores no resolver and does not call
\* the internal provider.
C30_AccountsAnsweredLocally ==
  [][\A r \in ReqIds :
       (Handled(r) /\ req[r].method \in AccountMethods /\ GrantsOf(r) # {})
         => /\ r \notin DOMAIN req'
            /\ \E m \in posted' : m.result.tag = "accounts" /\ m.port = req[r].port
            /\ windows' = {} /\ emitted' = {} /\ invoked' = {}
            /\ issued' = <<"postMessage">>
            /\ UNCHANGED <<pending, blockedOrder, store>>]_vars

\* An eth_requestAccounts request of a granted origin was just answered
\* with the account, without having been suspended.
C30_Witness ==
  \E m \in posted :
    /\ m.method = "eth_requestAccounts"
    /\ m.resolved = NotResolved
    /\ m.result = AccountsResult(<<selected>>)
    /\ windows = {} /\ emitted = {} /\ invoked = {}

\* C31 (as stated): a request of a granted origin whose method is neither an
\* account method nor of a signing family is handed to the internal provider
\* in the step its check resolves.
C31_AnyOtherMethodForwarded ==
  [][\A r \in ReqIds :
       (Handled(r) /\ req[r].method \notin AccountMethods \cup SigningFamily
          /\ GrantsOf(r) # {})
         => invoked' = {[method |-> req[r].method, param |-> req[r].param]}]_vars

\* C31 (amended): a dApp RPC call of a granted origin whose method is neither
\* an account method nor of a signing family is handed to the internal
\* provider once, whatever its parameters, without a popup and without a
\* reply in that step; when the provider settles, the call is answered with
\* the provider's result, or with userRejectedRequest if the provider failed,
\* and the provider is not called again.
C31_OtherRpcForwarded ==
  [][\A r \in ReqIds :
       /\ (Handled(r) /\ DappRpc(req[r].method)
             /\ req[r].method \notin AccountMethods \cup SigningFamily
             /\ GrantsOf(r) # {})
            => /\ invoked' = {[method |-> req[r].method, param |-> req[r].param]}
               /\ issued' = <<"routeSafeRPCRequest">>
               /\ windows' = {} /\ posted' = {}
               /\ r \in DOMAIN req' /\ req'[r].pc = "service"
       /\ (r \in DOMAIN req /\ req[r].pc = "service"
             /\ req[r].method \notin SigningFamily
             /\ (r \notin DOMAIN req' \/ req'[r] # req[r]))
            => /\ r \notin DOMAIN req'
               /\ invoked' = {} /\ windows' = {}
               /\ \E o \in received' :
                    Answered(r, IF o.ok THEN ServiceResult(req[r].method)
                                ELSE ErrorResult(USER_REJECTED))]_vars

\* A call outside the account methods and the signing families, sent without
\* an address in its parameters, was forwarded and was just answered with
\* the result of the internal provider.
C31_Witness ==
  \E m \in posted :
    /\ m.method \in OtherMethods
    /\ m.param = Undefined
    /\ m.result = ServiceResult(m.method)
    /\ received = {[ok |-> TRUE, popup |-> "none"]}
    /\ windows = {}

\* The setClaimReferrer event of request r.
ClaimEvent(r) ==
  [event |-> "setClaimReferrer", origin |-> OriginOf(r), value |-> req[r].param]

\* C32: a setClaimReferrer event is emitted only in the step that handles a
\* tally_setClaimReferrer message of the website origin whose first parameter
\* is a string; that step emits the referrer and answers the message with
\* null.  Any other tally_setClaimReferrer message ends with no event and no
\* reply, and neither outcome depends on the grants of the origin.
C32_ClaimReferrerValidated ==
  [][/\ \A e \in emitted' :
          e.event = "setClaimReferrer"
            => \E r \in ReqIds :
                 /\ Handled(r) /\ req[r].method \in ClaimMethods
                 /\ OriginOf(r) = WEBSITE_ORIGIN /\ req[r].param # Undefined
                 /\ e = ClaimEvent(r)
     /\ \A r \in ReqIds :
          (Handled(r) /\ req[r].method \in ClaimMethods)
            => /\ r \notin DOMAIN req'
               /\ invoked' = {} /\ windows' = {}
               /\ UNCHANGED <<store, pending>>
               /\ IF OriginOf(r) = WEBSITE_ORIGIN /\ req[r].param # Undefined
                  THEN emitted' = {ClaimEvent(r)} /\ Answered(r, NullResult)
                  ELSE emitted' = {} /\ posted' = {}]_vars

\* The website origin, which holds no grant, sent a referrer string: the
\* event was just emitted and the message answered with null.
C32_Witness ==
  \E m \in posted :
    /\ m.method \in ClaimMethods
    /\ m.result = NullResult
    /\ PortOrigin(m.port) = WEBSITE_ORIGIN
    /\ emitted = {[event |-> "setClaimReferrer", origin |-> WEBSITE_ORIGIN, value |-> REFERRER]}
    /\ \A g \in store : g.origin # WEBSITE_ORIGIN

\* The reply to the config query r, with the default-wallet setting w.
ConfigReply(r, w) ==
  [port |-> req[r].port, id |-> TALLY_ID, method |-> req[r].method,
   param |-> req[r].param, resolved |-> req[r].resolved,
   result |-> [tag |-> "config", value |-> <<req[r].method, w>>]]

\* C33: a wallet-config query, whether or not its origin holds a grant, is
\* answered in the step that handles it with the default-wallet setting of
\* that moment, under the id "tallyHo"; that step opens no popup, emits
\* nothing, calls no provider and leaves the store and the pending table as
\* they were.
C33_ConfigAnsweredFirst ==
  [][\A r \in ReqIds :
       (Handled(r) /\ req[r].method \in ConfigMethods)
         => /\ posted' = {ConfigReply(r, defaultWallet)}
            /\ r \notin DOMAIN req'
            /\ windows' = {} /\ emitted' = {} /\ invoked' = {}
            /\ UNCHANGED <<store, pending, blockedOrder, defaultWallet>>]_vars

\* The config query of an origin without a grant was just answered with the
\* setting the preferences hold, after that setting had been changed.
C33_Witness ==
  \E m \in posted :
    /\ m.method \in ConfigMethods
    /\ m.id = TALLY_ID
    /\ defaultWallet = TRUE
    /\ m.result.tag = "config" /\ m.result.value = <<m.method, TRUE>>
    /\ \A g \in store : g.origin # PortOrigin(m.port)

\* Port p connected with the name of the content script and with a sender url.
AllowedPort(p) == PortName(p) = EXTERNAL_PORT_NAME /\ HasSenderUrl(p)

\* C34: openPorts holds exactly the connected ports that connected with the
\* allowed name and a sender url; a port that connected with another name or
\* without a sender url is never in it, no request of such a port is ever
\* handled and nothing is ever posted to it.
C34_OpenPortsExact ==
  /\ openPorts = {p \in connected : AllowedPort(p)}
  /\ \A r \in DOMAIN req : AllowedPort(req[r].port)
  /\ \A m \in posted \cup pushed : AllowedPort(m.port)

\* A port with another name and a port without a sender url are connected
\* next to a port of the content script, which alone is registered and whose
\* request is under way.
C34_Witness ==
  /\ {OTHER_NAME_PORT, NO_URL_PORT} \subseteq connected
  /\ Cardinality(connected) > Cardinality(openPorts)
  /\ Cardinality(openPorts) = 1
  /\ \E r \in DOMAIN req : req[r].port \in openPorts

\* The config-change push for port p with the setting w.
ConfigPush(p, w) ==
  [port |-> p, id |-> TALLY_ID,
   result |-> [tag |-> "config", value |-> <<"tally_getConfig", w>>]]

\* C35: a call of notifyContentScriptAboutConfigChange posts, to each port
\* of openPorts and to no other port, one push with the id "tallyHo", the
\* method tally_getConfig and the value it was called with, whether or not
\* the origin of the port holds a grant; it posts nothing else and changes
\* neither the ports nor the store.
C35_ConfigChangeToEveryPort ==
  [][\A w \in BOOLEAN :
       (received' = {[newDefaultWalletValue |-> w]})
         => /\ pushed' = {ConfigPush(p, w) : p \in openPorts}
            /\ Len(issued') = Cardinality(openPorts)
            /\ \A i \in DOMAIN issued' : issued'[i] = "postMessage"
            /\ posted' = {}
            /\ UNCHANGED <<openPorts, store, pending, defaultWallet>>]_vars

\* The new setting was just pushed to both open ports, one of an origin that
\* holds a grant and one of an origin that holds none, and not to the
\* connected port that was refused.
C35_Witness ==
  /\ pushed = {ConfigPush(p, TRUE) : p \in Ports}
  /\ openPorts = Ports
  /\ OTHER_NAME_PORT \in connected
  /\ \E p \in Ports : \A g \in store : g.origin # PortOrigin(p)
  /\ \E p \in Ports : \E g \in store : g.origin = PortOrigin(p)

\* rejectTransactionSignature runs to its end in this step.
RejectFulfilled ==
  received' = {[thunk |-> "rejectTransactionSignature", fulfilled |-> TRUE]}

SignedOnlyWhenSigned(state) ==
  state.signedTransaction # {} => state.status = Signed

\* C40: in every state of the slice signedTransaction is set only if the
\* status is signed, a step that leaves the status pending, loaded or idle
\* leaves signedTransaction unset, and transactionSigned, when it reads the
\* state after its signed action, emits broadcastSignedTransaction with its
\* transaction if broadcastOnSign is true in that state and emits nothing
\* otherwise; no other step emits that event.
C40_SignedOnlyWhenSigned ==
  [][/\ SignedOnlyWhenSigned(transactionConstruction)
     /\ SignedOnlyWhenSigned(transactionConstruction')
     /\ transactionConstruction'.status \in {Pending, Loaded, Idle}
          => transactionConstruction'.signedTransaction = {}
     /\ \A k \in thunks' \ thunks :
          k.kind = "transactionSigned"
            => /\ transactionConstruction'.status = Signed
               /\ transactionConstruction'.signedTransaction = {k.arg}
     /\ \A k \in thunks \ thunks' :
          k.kind = "transactionSigned"
            => emitted' = IF transactionConstruction.broadcastOnSign = {TRUE}
                          THEN {Event("broadcastSignedTransaction", k.arg)}
                          ELSE {}
     /\ \A e \in emitted' :
          e.event = "broadcastSignedTransaction"
            => \E k \in thunks \ thunks' : k.kind = "transactionSigned" /\ e.value = k.arg]_vars

\* transactionSigned has just broadcast its transaction: broadcastOnSign is
\* true, the status is signed and the slice holds the signed transaction.
C40_Witness ==
  \E t \in SignedTransactions :
    /\ emitted = {Event("broadcastSignedTransaction", t)}
    /\ transactionConstruction.broadcastOnSign = {TRUE}
    /\ transactionConstruction.status = Signed
    /\ transactionConstruction.signedTransaction = {t}

\* The (chain, address) pairs that have an entry in accountsData.
TrackedAccounts(state) ==
  {<<c, a>> : c \in DOMAIN state.accountsData.evm, a \in Accounts} \cap
  UNION {{<<c, a>> : a \in DOMAIN state.accountsData.evm[c]} :
         c \in DOMAIN state.accountsData.evm}

\* The (chain, normalized address) pair a payload names.
AccountOf(payload) == <<payload.network, normalizeEVMAddress(payload.address)>>

\* C37: no reducer other than loadAccount adds an entry to accountsData;
\* updateAccountName and updateENSAvatar for an account without an entry,
\* and updateAccountBalance with balances of accounts without an entry only,
\* leave accountsData as it was; loadAccount of an account that has an entry
\* leaves the state as it was, and of one that has none adds its entry, as
\* loading, and no other.
C37_OnlyLoadAccountAdds ==
  [][\A x \in received' :
       LET before == TrackedAccounts(accountsState)
           after == TrackedAccounts(accountsState')
       IN
         /\ x.action # "loadAccount" => after \subseteq before
         /\ (x.action \in {"updateAccountName", "updateENSAvatar"}
               /\ AccountOf(x.payload) \notin before)
              => accountsState'.accountsData = accountsState.accountsData
         /\ (x.action = "updateAccountBalance"
               /\ \A i \in DOMAIN x.payload : AccountOf(x.payload[i]) \notin before)
              => accountsState'.accountsData = accountsState.accountsData
         /\ (x.action = "loadAccount" /\ AccountOf(x.payload) \in before)
              => accountsState' = accountsState
         /\ (x.action = "loadAccount" /\ AccountOf(x.payload) \notin before)
              => /\ after = before \cup {AccountOf(x.payload)}
                 /\ accountsState'.accountsData.evm[x.payload.network]
                      [normalizeEVMAddress(x.payload.address)] = LOADING]_vars

\* A name has just arrived for an account that has no entry on its chain
\* while the same address has data on the other chain, and a balance of
\* another account is held.
C37_Witness ==
  \E x \in received :
    /\ x.action = "updateAccountName"
    /\ AccountOf(x.payload) \notin TrackedAccounts(accountsState)
    /\ \E c \in DOMAIN accountsState.accountsData.evm :
         /\ x.payload.address \in DOMAIN accountsState.accountsData.evm[c]
         /\ accountsState.accountsData.evm[c][x.payload.address] # LOADING
    /\ accountsState.combinedData.assets # {}

\* C38: combinedData.assets holds, for each asset symbol some account of
\* accountsData has a balance of, the sum of those balances, and holds no
\* other symbol.
C38_CombinedMatchesAccounts ==
  accountsState.combinedData.assets = CombinedAssets(accountsState.accountsData.evm)

\* The highest of a non-empty set of heights.
Highest(heights) == CHOOSE h \in heights : \A g \in heights : g <= h

\* C39: for every chain of which a block was seen, blockHeight is the
\* highest height of the blocks seen, it never decreases, and a block that
\* is seen is stored under its height in place of an earlier block of that
\* height.
C39_HeightIsHighestSeen ==
  [][/\ \A c \in DOMAIN networkData' :
          DOMAIN networkData'[c].blocks # {}
            => networkData'[c].blockHeight = {Highest(DOMAIN networkData'[c].blocks)}
     /\ \A c \in DOMAIN networkData :
          HeightOrZero(networkData'[c].blockHeight) >= HeightOrZero(networkData[c].blockHeight)
     /\ \A x \in received' :
          x.action = "blockSeen"
            => networkData'[x.payload.network.chainID].blocks[x.payload.blockHeight]
                 = x.payload]_vars

====
